---- MODULE Spec2Model ----
(***************************************************************************)
(* anki-writer: the collection database builder (AnkiDatabase), the        *)
(* streaming archive writer (ApkgZipWriter) and the package writer         *)
(* (AnkiPackageWriter.create) as one state machine.                        *)
(*                                                                         *)
(* Conventions.  An optional attribute `x?: T` is a sequence of length 0   *)
(* (undefined) or 1 (defined); `a ?? b` is Coalesce(a, b).  A JavaScript    *)
(* string that the program scans or joins is a sequence of tokens.  Wall   *)
(* clock columns (crt, mod, scm) are left out of the rows: no statement    *)
(* checked here reads them.  The guid column is left out as well:          *)
(* generateGuid is modelled and checked on its own.                        *)
(***************************************************************************)
EXTENDS Integers, Sequences, FiniteSets, TLC

VARIABLES
    \* ---- AnkiDatabase (src/src/database.ts:117-126)
    db,            \* this.db: NULL or the open sql.js Database with its tables
    currentId,     \* this.idGen.currentId
    models,        \* this.models: Map<number, AnkiModel>
    decks,         \* this.decks: Map<number, AnkiDeck>
    initialized,   \* this.initialized
    initAwait,     \* number of init() calls suspended at `await initSqlJs()`
    sqlOpened,     \* how many times `new SQL.Database()` ran
    sqlClosed,     \* how many times Database.close() ran
    life,          \* lifecycle as seen by the caller: what completed last
    dbData,        \* what the caller holds of export(): None, or the payload returned
    ret,           \* outcome of the last call made on one of the objects
    \* ---- ApkgZipWriter (src/unnamed/part_000:21-37)
    finalized,     \* this.finalized
    entries,       \* archive: the entries appended so far, in append order
    written,       \* archive: how many of them the engine has written out
    engine,        \* archive: "open", "finalizing", "ended" or "errored"
    entryListeners,\* archive: the streams whose once('entry') listener is registered
    streams,       \* each media stream: "unused", "open", "reading", "ended", "errored"
    mediaPromise,  \* the promise addMediaFile returned for each stream
    sink,          \* this.output: "open", "finished" or "errored"
    sinkListeners, \* whether finalize() has registered its finish/error listeners
    finalizeState, \* the promise finalize() returned
    uncaught,      \* an exception left an event handler, or an error event had no listener
    \* ---- AnkiPackageWriter (src/index.ts:25-42)
    pc,            \* where create() stands; "idle" when no package writer exists
    options,       \* model, deck and notes given to the constructor
    noteIdx,       \* the notes the loop of step 4 has passed
    mediaFiles,    \* this.mediaFiles, in insertion order
    resolver,      \* the promise of each mediaResolver(filename) call
    appends,       \* the three promises of steps 6-8 and the first rejection among them
    creates,       \* create() calls made so far
    createError,   \* what the last settled create() rejected with ("" when it resolved)
    \* ---- utils.ts and the helpers of the archive writer, called on their own
    gen,           \* an IdGenerator of its own: its counter and what its calls returned
    call           \* the last helper called: its name, its argument and its result

dbVars == <<db, currentId, models, decks, initialized, initAwait, sqlOpened, sqlClosed, life>>

zipVars == <<finalized, entries, written, engine, entryListeners, streams, mediaPromise,
             sink, sinkListeners, finalizeState, uncaught>>

createVars == <<pc, options, noteIdx, mediaFiles, resolver, appends, creates, createError>>

utilVars == <<gen, call>>

vars == <<dbVars, dbData, ret, zipVars, createVars, utilVars>>

(***************************************************************************)
(* Values                                                                  *)
(***************************************************************************)
None == <<>>

Some(v) == <<v>>

Coalesce(opt, dflt) == IF opt = None THEN dflt ELSE opt[1]

NULL == [type |-> "null"]

ErrNotInitialized == "Database not initialized"

ErrEngineInit == "initSqlJs failed"

Digit == <<"0", "1", "2", "3", "4", "5", "6", "7", "8", "9">>

RECURSIVE toString(_)
\* Number.prototype.toString() for a non-negative integer
toString(n) == IF n < 10 THEN Digit[n + 1] ELSE toString(n \div 10) \o Digit[(n % 10) + 1]

(***************************************************************************)
(* Bounds and inputs                                                       *)
(***************************************************************************)
\* rows a run may insert into the notes table
MaxNotes == 2

\* init() calls that may be suspended at the engine initialisation at once
MaxAwait == 2

\* media streams a run may hand to the archive writer
MaxStreams == 2

\* entries a caller driving the archive writer directly may append
MaxEntries == 3

\* create() calls made on one package writer
MaxCreates == 2

\* next() calls made on an IdGenerator driven directly
MaxIds == 3

\* tokens of a text handed to extractMediaFilenames directly
MaxTokens == 2

\* filenames handed to buildMediaManifest directly
MaxFiles == 2

\* the largest of the small numbers handed to toBase91 directly
MaxBigInt == 8300

\* fields handed to generateGuid directly
MaxFields == 2

\* templates, and fields, handed to generateRequirements directly
MaxTemplates == 3

\* start value of the id generator (Date.now() in production, 1000 in the tests)
Seed == 1000

Field(i) == [name |-> "F" \o toString(i), ord |-> i, sticky |-> None, rtl |-> None,
             font |-> None, size |-> None]

Template(i) == [name |-> "T" \o toString(i), ord |-> i, bqfmt |-> None, bafmt |-> None,
                did |-> None]

\* an AnkiModel as the caller passes it (src/types.ts:34-51)
Model(id, nf, nt, sortf, req) ==
    [id |-> id, flds |-> [i \in 1..nf |-> Field(i - 1)],
     tmpls |-> [i \in 1..nt |-> Template(i - 1)],
     type |-> None, usn |-> None, sortf |-> sortf, did |-> None,
     latexPre |-> None, latexPost |-> None, latexsvg |-> None,
     req |-> req, tags |-> None, vers |-> None]

ModelInputs ==
    { Model(1, 1, 2, None, None),
      Model(1, 2, 1, Some(1), Some(<<>>)) }

ModelIds == {1, 2}

\* an AnkiDeck as the caller passes it (src/types.ts:56-71)
Deck(id, name) ==
    [id |-> id, name |-> name, desc |-> None, collapsed |-> None, conf |-> None,
     dyn |-> None, extendNew |-> None, extendRev |-> None, lrnToday |-> None,
     newToday |-> None, revToday |-> None, timeToday |-> None, usn |-> None]

DeckInputs == { Deck(1, "A"), Deck(2, "B") }

DeckIds == {1}

\* tokens of a field's text: plain text, [sound:NAME], <img src="NAME">
Txt(s) == [k |-> "text", v |-> s]

Sound(f) == [k |-> "sound", v |-> f]

Img(f) == [k |-> "img", v |-> f]

\* an AnkiNote (src/types.ts:76-80)
Note(fields) == [fields |-> fields, tags |-> None, guid |-> None]

NoteInputs ==
    { Note(<<<<Sound("a.mp3")>>>>),
      Note(<<<<Txt("x")>>, <<Img("b.png"), Sound("a.mp3")>>>>) }

(***************************************************************************)
(* utils.ts                                                                *)
(***************************************************************************)
\* next() as a pre-increment
IdNextPre(cur) == [value |-> cur + 1, currentId |-> cur + 1]

\* IdGenerator.next(): post-increment
IdNext(cur) == [value |-> cur, currentId |-> cur + 1]

\* IdGenerator.peek()
IdPeek(cur) == cur

\* new IdGenerator(startTimestamp), with a record of what its calls returned:
\* the values of the next() calls in order and the value of the last peek()
NewIdGenerator(startTimestamp) ==
    [seed |-> startTimestamp, currentId |-> startTimestamp, returned |-> <<>>,
     peeked |-> None]

\* no helper has been called on its own
NoUtils ==
    /\ gen = NewIdGenerator(Seed)
    /\ call = [fn |-> "none", arg |-> <<>>, out |-> <<>>]

\* requirements numbered from 1
generateRequirementsOneBased(templates, fields) ==
    [i \in 1..Len(templates) |-> <<i, "any", <<0>>>>]

\* generateRequirements(templates, fields)
generateRequirements(templates, fields) ==
    [i \in 1..Len(templates) |-> <<i - 1, "any", <<0>>>>]

\* the separator joinFields puts between two fields (the byte 0x1F)
UnitSep == [k |-> "sep", v |-> "\\x1f"]

RECURSIVE JoinFrom(_, _, _)
JoinFrom(strs, sep, i) ==
    IF i > Len(strs) THEN <<>>
    ELSE IF i = Len(strs) THEN strs[i]
    ELSE strs[i] \o <<sep>> \o JoinFrom(strs, sep, i + 1)

\* joinFields(fields): Array.prototype.join with "\x1f"
joinFields(fields) == JoinFrom(fields, UnitSep, 1)

\* formatTags(tags)
formatTags(tags) == IF Len(tags) = 0 THEN <<>> ELSE <<Txt(" ")>> \o JoinFrom(tags, Txt(" "), 1) \o <<Txt(" ")>>

\* the captures of one pattern in a text, left to right
Matches(html, kind) ==
    LET hits == SelectSeq(html, LAMBDA t : t.k = kind)
    IN [i \in 1..Len(hits) |-> hits[i].v]

\* extractMediaFilenames(html): the [sound:...] matches, then the <img src=...> matches
extractMediaFilenames(html) == Matches(html, "sound") \o Matches(html, "img")

\* Set.prototype.add on a set kept in insertion order
SetAdd(set, x) == IF \E i \in 1..Len(set) : set[i] = x THEN set ELSE Append(set, x)

RECURSIVE SetAddAll(_, _, _)
SetAddAll(set, xs, i) ==
    IF i > Len(xs) THEN set ELSE SetAddAll(SetAdd(set, xs[i]), xs, i + 1)

\* the manifest keyed by the one-based position
buildMediaManifestOneBased(filenames) ==
    [k \in { toString(i) : i \in 1..Len(filenames) } |->
        filenames[CHOOSE i \in 1..Len(filenames) : toString(i) = k]]

\* buildMediaManifest(filenames)
buildMediaManifest(filenames) ==
    [k \in { toString(i - 1) : i \in 1..Len(filenames) } |->
        filenames[CHOOSE i \in 1..Len(filenames) : toString(i - 1) = k]]

\* calculateChecksum(firstField)
calculateChecksum(firstField) == 0

(***************************************************************************)
(* utils.ts: generateGuid.  A JavaScript string is here the sequence of    *)
(* its code points, a Buffer the sequence of its bytes and a BigInt the    *)
(* sequence of its base-256 digits, most significant first.                *)
(***************************************************************************)
\* e is evaluated once and F applied to its value
Eval(e, F(_)) == CHOOSE r \in { F(x) : x \in {e} } : TRUE

\* BASE91_TABLE: 'a'..'z', 'A'..'Z', '0'..'9' and 29 punctuation marks
BASE91_TABLE ==
    <<97, 98, 99, 100, 101, 102, 103, 104, 105, 106, 107, 108, 109, 110, 111, 112, 113, 114, 115,
      116, 117, 118, 119, 120, 121, 122, 65, 66, 67, 68, 69, 70, 71, 72, 73, 74, 75, 76,
      77, 78, 79, 80, 81, 82, 83, 84, 85, 86, 87, 88, 89, 90, 48, 49, 50, 51, 52,
      53, 54, 55, 56, 57, 33, 35, 36, 37, 38, 40, 41, 42, 43, 44, 45, 46, 47, 58,
      59, 60, 61, 62, 63, 64, 91, 93, 94, 95, 96, 123, 124, 125, 126>>

RECURSIVE BigDivMod(_, _, _, _)
\* num / d and num % d on BigInts by long division: digits i.. of num are still to
\* come, acc.q holds the quotient digits so far and acc.r the running remainder
BigDivMod(num, d, i, acc) ==
    IF i > Len(num) THEN acc
    ELSE Eval([q |-> Append(acc.q, (256 * acc.r + num[i]) \div d),
               r |-> (256 * acc.r + num[i]) % d],
              LAMBDA next : BigDivMod(num, d, i + 1, next))

RECURSIVE Base91Loop(_, _)
\* the loop of toBase91: `while (num > 0n) { result.push(...); num = num / 91n }`
Base91Loop(num, result) ==
    IF \A i \in DOMAIN num : num[i] = 0 THEN result
    ELSE Eval(BigDivMod(num, 91, 1, [q |-> <<>>, r |-> 0]),
              LAMBDA dm : Base91Loop(dm.q, Append(result, BASE91_TABLE[dm.r + 1])))

\* Array.prototype.reverse
Reverse(s) == [i \in 1..Len(s) |-> s[Len(s) + 1 - i]]

\* toBase91 without its reverse(): least significant digit first
toBase91NoReverse(num) ==
    IF \A i \in DOMAIN num : num[i] = 0 THEN <<BASE91_TABLE[1]>>
    ELSE Base91Loop(num, <<>>)

\* toBase91(num)
toBase91(num) ==
    IF \A i \in DOMAIN num : num[i] = 0 THEN <<BASE91_TABLE[1]>>
    ELSE Reverse(Base91Loop(num, <<>>))

RECURSIVE JoinChars(_, _, _)
\* Array.prototype.join on strings given by their code points
JoinChars(strs, sep, i) ==
    IF i > Len(strs) THEN <<>>
    ELSE IF i = Len(strs) THEN strs[i]
    ELSE strs[i] \o sep \o JoinChars(strs, sep, i + 1)

RECURSIVE utf8(_, _)
\* the UTF-8 bytes of a string of code points below 0x10000, from the i-th on
utf8(str, i) ==
    IF i > Len(str) THEN <<>>
    ELSE (IF str[i] < 128 THEN <<str[i]>>
          ELSE IF str[i] < 2048 THEN <<192 + (str[i] \div 64), 128 + (str[i] % 64)>>
          ELSE <<224 + (str[i] \div 4096), 128 + ((str[i] \div 64) % 64),
                 128 + (str[i] % 64)>>)
         \o utf8(str, i + 1)

\* the round constants of SHA-256, each 32-bit word as its 16-bit halves <<high, low>>
SHA256_K ==
    <<<<17034, 12184>>, <<28983, 17553>>, <<46528, 64463>>, <<59829, 56229>>,
       <<14678, 49755>>, <<23025, 4593>>, <<37439, 33444>>, <<43804, 24277>>,
       <<55303, 43672>>, <<4739, 23297>>, <<9265, 34238>>, <<21772, 32195>>,
       <<29374, 23924>>, <<32990, 45566>>, <<39900, 1703>>, <<49563, 61812>>,
       <<58523, 27073>>, <<61374, 18310>>, <<4033, 40390>>, <<9228, 41420>>,
       <<11753, 11375>>, <<19060, 33962>>, <<23728, 43484>>, <<30457, 35034>>,
       <<38974, 20818>>, <<43057, 50797>>, <<45059, 10184>>, <<48985, 32711>>,
       <<50912, 3059>>, <<54695, 37191>>, <<1738, 25425>>, <<5161, 10599>>,
       <<10167, 2693>>, <<11803, 8504>>, <<19756, 28156>>, <<21304, 3347>>,
       <<25866, 29524>>, <<30314, 2747>>, <<33218, 51502>>, <<37490, 11397>>,
       <<41663, 59553>>, <<43034, 26187>>, <<49739, 35696>>, <<51052, 20899>>,
       <<53650, 59417>>, <<54937, 1572>>, <<62478, 13701>>, <<4202, 41072>>,
       <<6564, 49430>>, <<7735, 27656>>, <<10056, 30540>>, <<13488, 48309>>,
       <<14620, 3251>>, <<20184, 43594>>, <<23452, 51791>>, <<26670, 28659>>,
       <<29839, 33518>>, <<30885, 25455>>, <<33992, 30740>>, <<36039, 520>>,
       <<37054, 65530>>, <<42064, 27883>>, <<48889, 41975>>, <<50801, 30962>>>>

\* the initial hash value of SHA-256
SHA256_H0 ==
    <<<<27145, 58983>>, <<47975, 44677>>, <<15470, 62322>>, <<42319, 62778>>,
       <<20750, 21119>>, <<39685, 26764>>, <<8067, 55723>>, <<23520, 52505>>>>

\* crypto.createHash('sha256').update(msg).digest(): the 32 bytes of the SHA-256
\* digest of the byte sequence msg (FIPS 180-4); 32-bit words are pairs of 16-bit halves
sha256(msg) ==
    LET RECURSIVE Pow2(_)
        Pow2(n) == IF n = 0 THEN 1 ELSE 2 * Pow2(n - 1)
        RECURSIVE Xor16(_, _)
        Xor16(a, b) ==
            IF a = 0 THEN b ELSE IF b = 0 THEN a
            ELSE 2 * Xor16(a \div 2, b \div 2) + ((a + b) % 2)
        RECURSIVE And16(_, _)
        And16(a, b) ==
            IF a = 0 \/ b = 0 THEN 0
            ELSE 2 * And16(a \div 2, b \div 2) + ((a % 2) * (b % 2))
        Xor(a, b) == <<Xor16(a[1], b[1]), Xor16(a[2], b[2])>>
        And(a, b) == <<And16(a[1], b[1]), And16(a[2], b[2])>>
        Not(a) == <<65535 - a[1], 65535 - a[2]>>
        \* rotate right by n, 0 < n < 32
        Rotr(a, n) ==
            LET x == IF n >= 16 THEN <<a[2], a[1]>> ELSE a
                m == n % 16
            IN <<(x[1] \div Pow2(m)) + (x[2] % Pow2(m)) * Pow2(16 - m),
                 (x[2] \div Pow2(m)) + (x[1] % Pow2(m)) * Pow2(16 - m)>>
        \* shift right by n, 0 < n < 16
        Shr(a, n) ==
            <<a[1] \div Pow2(n), (a[2] \div Pow2(n)) + (a[1] % Pow2(n)) * Pow2(16 - n)>>
        \* addition modulo 2^32
        Add(a, b) ==
            <<(a[1] + b[1] + ((a[2] + b[2]) \div 65536)) % 65536, (a[2] + b[2]) % 65536>>
        \* the message, 0x80, zeros up to 56 modulo 64, the bit length on 8 bytes
        Pad(m) ==
            m \o <<128>> \o [i \in 1..((55 - Len(m)) % 64) |-> 0] \o <<0, 0, 0, 0>>
              \o <<((8 * Len(m)) \div 16777216) % 256, ((8 * Len(m)) \div 65536) % 256,
                   ((8 * Len(m)) \div 256) % 256, (8 * Len(m)) % 256>>
        \* the message schedule of one block, extended from Len(w) words to n words
        RECURSIVE Schedule(_, _)
        Schedule(w, n) ==
            IF n = Len(w) + 1
            THEN LET s0 == Xor(Xor(Rotr(w[n - 15], 7), Rotr(w[n - 15], 18)), Shr(w[n - 15], 3))
                     s1 == Xor(Xor(Rotr(w[n - 2], 17), Rotr(w[n - 2], 19)), Shr(w[n - 2], 10))
                 IN Append(w, Add(Add(w[n - 16], s0), Add(w[n - 7], s1)))
            ELSE Eval(Schedule(w, (Len(w) + n) \div 2), LAMBDA half : Schedule(half, n))
        \* one round on the working variables a..h with constant k and schedule word w
        Round(v, k, w) ==
            LET S1 == Xor(Xor(Rotr(v[5], 6), Rotr(v[5], 11)), Rotr(v[5], 25))
                ch == Xor(And(v[5], v[6]), And(Not(v[5]), v[7]))
                S0 == Xor(Xor(Rotr(v[1], 2), Rotr(v[1], 13)), Rotr(v[1], 22))
                maj == Xor(Xor(And(v[1], v[2]), And(v[1], v[3])), And(v[2], v[3]))
            IN Eval(<<Add(Add(Add(v[8], S1), Add(ch, k)), w), Add(S0, maj)>>,
                    LAMBDA t : <<Add(t[1], t[2]), v[1], v[2], v[3], Add(v[4], t[1]),
                                 v[5], v[6], v[7]>>)
        \* rounds from..to
        RECURSIVE Compress(_, _, _, _)
        Compress(v, w, from, to) ==
            IF from = to THEN Round(v, SHA256_K[from], w[from])
            ELSE Eval(Compress(v, w, from, (from + to) \div 2),
                      LAMBDA half : Compress(half, w, ((from + to) \div 2) + 1, to))
        \* the hash value after blocks b, b+1, ... of the padded message m
        RECURSIVE Blocks(_, _, _)
        Blocks(h, m, b) ==
            IF 64 * b >= Len(m) THEN h
            ELSE Eval(Schedule([i \in 1..16 |->
                          <<256 * m[64 * b + 4 * i - 3] + m[64 * b + 4 * i - 2],
                            256 * m[64 * b + 4 * i - 1] + m[64 * b + 4 * i]>>], 64),
                      LAMBDA w : Eval(Compress(h, w, 1, 64),
                      LAMBDA v : Eval(<<Add(h[1], v[1]), Add(h[2], v[2]), Add(h[3], v[3]),
                                        Add(h[4], v[4]), Add(h[5], v[5]), Add(h[6], v[6]),
                                        Add(h[7], v[7]), Add(h[8], v[8])>>,
                      LAMBDA next : Blocks(next, m, b + 1))))
    IN Eval(Eval(Pad(msg), LAMBDA m : Blocks(SHA256_H0, m, 0)),
            LAMBDA h : [j \in 1..32 |->
                LET half == h[((j - 1) \div 4) + 1][IF (j - 1) % 4 < 2 THEN 1 ELSE 2]
                IN IF (j - 1) % 2 = 0 THEN half \div 256 ELSE half % 256])

\* the string generateGuid feeds to the digest: fields.join('__')
hashStr(fields) == JoinChars(fields, <<95, 95>>, 1)

\* a guid keyed on the last 8 bytes of the digest
generateGuidLastBytes(fields) ==
    toBase91(SubSeq(sha256(utf8(hashStr(fields), 1)), 25, 32))

\* generateGuid(...fields)
generateGuid(fields) ==
    toBase91(SubSeq(sha256(utf8(hashStr(fields), 1)), 1, 8))

(***************************************************************************)
(* AnkiDatabase                                                            *)
(***************************************************************************)
\* the JSON object built from a Map: one key id.toString() per entry
Stringify(map) ==
    [k \in { toString(i) : i \in DOMAIN map } |->
        map[CHOOSE i \in DOMAIN map : toString(i) = k]]

\* a set that keeps the value a key already has
MapSetIfAbsent(map, key, value) ==
    [k \in DOMAIN map \cup {key} |-> IF k \in DOMAIN map THEN map[k] ELSE value]

\* Map.prototype.set
MapSet(map, key, value) ==
    [k \in DOMAIN map \cup {key} |-> IF k = key THEN value ELSE map[k]]

EmptyMap == [k \in {} |-> None]

\* the row init() inserts into col
ColRow == [id |-> 1, ver |-> 11, dty |-> 0, usn |-> -1, ls |-> 0,
           models |-> Stringify(EmptyMap), decks |-> Stringify(EmptyMap), tags |-> "{}"]

\* new SQL.Database() after SCHEMA_SQL and the INSERT INTO col
NewDatabase(handle) ==
    [type |-> "Database", handle |-> handle, col |-> <<ColRow>>, notes |-> <<>>,
     cards |-> <<>>, revlog |-> <<>>, graves |-> <<>>]

\* the blob written as a further row instead of into the row with id 1
UpdateColInsert(d, column, blob) ==
    [d EXCEPT !.col = Append(@, [ColRow EXCEPT !.id = Len(d.col) + 1, ![column] = blob])]

\* UPDATE col SET <column> = <blob> WHERE id = 1
UpdateCol(d, column, blob) ==
    [d EXCEPT !.col = [r \in DOMAIN d.col |->
        IF d.col[r].id = 1 THEN [d.col[r] EXCEPT ![column] = blob] ELSE d.col[r]]]

\* the model addModel stores: every optional attribute filled
FullModel(model) ==
    [model EXCEPT
        !.flds = [i \in DOMAIN model.flds |->
            [model.flds[i] EXCEPT !.sticky = Some(Coalesce(@, FALSE)),
                                  !.rtl = Some(Coalesce(@, FALSE)),
                                  !.font = Some(Coalesce(@, "Arial")),
                                  !.size = Some(Coalesce(@, 20))]],
        !.tmpls = [i \in DOMAIN model.tmpls |->
            [model.tmpls[i] EXCEPT !.bqfmt = Some(Coalesce(@, "")),
                                   !.bafmt = Some(Coalesce(@, "")),
                                   !.did = Some(Coalesce(@, "null"))]],
        !.type = Some(Coalesce(@, 0)),
        !.usn = Some(Coalesce(@, -1)),
        !.sortf = Some(Coalesce(@, 0)),
        !.did = Some(Coalesce(@, "null")),
        !.latexPre = Some(Coalesce(@, "getDefaultLatexPre()")),
        !.latexPost = Some(Coalesce(@, "getDefaultLatexPost()")),
        !.latexsvg = Some(Coalesce(@, FALSE)),
        !.req = Some(Coalesce(@, generateRequirements(model.tmpls, model.flds))),
        !.tags = Some(Coalesce(@, <<>>)),
        !.vers = Some(Coalesce(@, <<>>))]

\* the deck addDeck stores
FullDeck(deck) ==
    [deck EXCEPT
        !.desc = Some(Coalesce(@, "")),
        !.collapsed = Some(Coalesce(@, FALSE)),
        !.conf = Some(Coalesce(@, 1)),
        !.dyn = Some(Coalesce(@, 0)),
        !.extendNew = Some(Coalesce(@, 0)),
        !.extendRev = Some(Coalesce(@, 50)),
        !.lrnToday = Some(Coalesce(@, <<0, 0>>)),
        !.newToday = Some(Coalesce(@, <<0, 0>>)),
        !.revToday = Some(Coalesce(@, <<0, 0>>)),
        !.timeToday = Some(Coalesce(@, <<0, 0>>)),
        !.usn = Some(Coalesce(@, -1))]

\* a notes row whose sort field is always the first field
NoteRowSortFirst(noteId, note, modelId, model) ==
    [id |-> noteId, mid |-> modelId, usn |-> -1,
     tags |-> formatTags(Coalesce(note.tags, <<>>)),
     flds |-> joinFields(note.fields),
     sfld |-> Some(note.fields[1]),
     csum |-> calculateChecksum(note.fields[1]), flags |-> 0, data |-> ""]

\* the row addNote inserts into notes
NoteRow(noteId, note, modelId, model) ==
    [id |-> noteId, mid |-> modelId, usn |-> -1,
     tags |-> formatTags(Coalesce(note.tags, <<>>)),
     flds |-> joinFields(note.fields),
     sfld |-> IF Coalesce(model.sortf, 0) + 1 \in DOMAIN note.fields
              THEN Some(note.fields[Coalesce(model.sortf, 0) + 1]) ELSE None,
     csum |-> calculateChecksum(note.fields[1]), flags |-> 0, data |-> ""]

\* a cards row whose due is the template ordinal
CardRowDueOrd(cardId, noteId, deckId, ord) ==
    [id |-> cardId, nid |-> noteId, did |-> deckId, ord |-> ord, usn |-> -1,
     type |-> 0, queue |-> 0, due |-> ord, ivl |-> 0, factor |-> 0, reps |-> 0,
     lapses |-> 0, left |-> 0, odue |-> 0, odid |-> 0, flags |-> 0, data |-> ""]

\* the row addCard inserts into cards
CardRow(cardId, noteId, deckId, ord) ==
    [id |-> cardId, nid |-> noteId, did |-> deckId, ord |-> ord, usn |-> -1,
     type |-> 0, queue |-> 0, due |-> cardId, ivl |-> 0, factor |-> 0, reps |-> 0,
     lapses |-> 0, left |-> 0, odue |-> 0, odid |-> 0, flags |-> 0, data |-> ""]

\* addCard reading the next id without consuming it
addCardPeeks(d, cur, noteId, deckId, ord) ==
    [db |-> [d EXCEPT !.cards = Append(@, CardRow(IdPeek(cur), noteId, deckId, ord))],
     currentId |-> cur]

\* addCard storing ordinal 0 for every template
addCardOrdZero(d, cur, noteId, deckId, ord) ==
    [db |-> [d EXCEPT !.cards = Append(@, CardRow(IdNext(cur).value, noteId, deckId, 0))],
     currentId |-> IdNext(cur).currentId]

\* addCard storing the card's own id in the nid column
addCardOwnIdAsNid(d, cur, noteId, deckId, ord) ==
    [db |-> [d EXCEPT !.cards =
                Append(@, CardRow(IdNext(cur).value, IdNext(cur).value, deckId, ord))],
     currentId |-> IdNext(cur).currentId]

\* addCard(noteId, deckId, ord) on database d with the generator at cur
addCard(d, cur, noteId, deckId, ord) ==
    [db |-> [d EXCEPT !.cards = Append(@, CardRow(IdNext(cur).value, noteId, deckId, ord))],
     currentId |-> IdNext(cur).currentId]

RECURSIVE AddCards(_, _, _, _, _, _)
\* the loop `for (ord = 0; ord < model.tmpls.length; ord++) addCard(noteId, deckId, ord)`
AddCards(d, cur, noteId, deckId, ord, n) ==
    IF ord >= n THEN [db |-> d, currentId |-> cur]
    ELSE AddCards(addCard(d, cur, noteId, deckId, ord).db,
                  addCard(d, cur, noteId, deckId, ord).currentId,
                  noteId, deckId, ord + 1, n)

ErrModelNotFound(modelId) == "Model " \o toString(modelId) \o " not found"

ErrFieldCount(have, want) ==
    "Note has " \o toString(have) \o " fields, but model expects " \o toString(want)

\* the outcome of a call: the error thrown ("" for none), the number returned
\* (0 for none) and, for init() and close(), the path it took
Ok(op, value, how) == [op |-> op, error |-> "", value |-> value, how |-> how]

Throw(op, msg) == [op |-> op, error |-> msg, value |-> 0, how |-> ""]

\* ---- the methods: each changes dbVars and leaves its outcome in ret

\* init() without its `if (this.initialized) return`
initUnguarded ==
    /\ initAwait < MaxAwait
    /\ initAwait' = initAwait + 1
    /\ ret' = Ok("init", 0, "pending")
    /\ UNCHANGED <<db, currentId, models, decks, initialized, sqlOpened, sqlClosed, life>>

\* init() that returns at once only while a handle is held: `if (this.db) return`
initTestsHandle ==
    IF db # NULL
    THEN /\ ret' = Ok("init", 0, "noop")
         /\ UNCHANGED dbVars
    ELSE /\ initAwait < MaxAwait
         /\ initAwait' = initAwait + 1
         /\ ret' = Ok("init", 0, "pending")
         /\ UNCHANGED <<db, currentId, models, decks, initialized, sqlOpened, sqlClosed, life>>

\* init() up to `await initSqlJs()`; an initialized instance returns at once
init ==
    IF initialized
    THEN /\ ret' = Ok("init", 0, "noop")
         /\ UNCHANGED dbVars
    ELSE /\ initAwait < MaxAwait
         /\ initAwait' = initAwait + 1
         /\ ret' = Ok("init", 0, "pending")
         /\ UNCHANGED <<db, currentId, models, decks, initialized, sqlOpened, sqlClosed, life>>

\* init() from the point where initSqlJs() has resolved to its end
initResume ==
    /\ initAwait > 0
    /\ initAwait' = initAwait - 1
    /\ db' = NewDatabase(sqlOpened + 1)
    /\ sqlOpened' = sqlOpened + 1
    /\ initialized' = TRUE
    /\ life' = "initialized"
    /\ ret' = Ok("init", 0, "created")
    /\ UNCHANGED <<currentId, models, decks, sqlClosed>>

\* initSqlJs() rejects: init() rejects with the engine's error
initReject ==
    /\ initAwait > 0
    /\ initAwait' = initAwait - 1
    /\ ret' = Throw("init", ErrEngineInit)
    /\ UNCHANGED <<db, currentId, models, decks, initialized, sqlOpened, sqlClosed, life>>

addModel(model) ==
    IF db = NULL
    THEN /\ ret' = Throw("addModel", ErrNotInitialized)
         /\ UNCHANGED dbVars
    ELSE /\ models' = MapSet(models, model.id, FullModel(model))
         /\ db' = UpdateCol(db, "models", Stringify(models'))
         /\ ret' = Ok("addModel", 0, "")
         /\ UNCHANGED <<currentId, decks, initialized, initAwait, sqlOpened, sqlClosed, life>>

\* addDeck with the map updated before the handle is checked
addDeckSetsFirst(deck) ==
    /\ decks' = MapSet(decks, deck.id, FullDeck(deck))
    /\ IF db = NULL
       THEN /\ ret' = Throw("addDeck", ErrNotInitialized)
            /\ db' = db
       ELSE /\ db' = UpdateCol(db, "decks", Stringify(decks'))
            /\ ret' = Ok("addDeck", 0, "")
    /\ UNCHANGED <<currentId, models, initialized, initAwait, sqlOpened, sqlClosed, life>>

addDeck(deck) ==
    IF db = NULL
    THEN /\ ret' = Throw("addDeck", ErrNotInitialized)
         /\ UNCHANGED dbVars
    ELSE /\ decks' = MapSet(decks, deck.id, FullDeck(deck))
         /\ db' = UpdateCol(db, "decks", Stringify(decks'))
         /\ ret' = Ok("addDeck", 0, "")
         /\ UNCHANGED <<currentId, models, initialized, initAwait, sqlOpened, sqlClosed, life>>

\* addNote with the note id drawn before the model and the field count are checked
addNoteDrawsIdFirst(note, modelId, deckId) ==
    IF db = NULL
    THEN /\ ret' = Throw("addNote", ErrNotInitialized)
         /\ UNCHANGED dbVars
    ELSE IF modelId \notin DOMAIN models
    THEN /\ ret' = Throw("addNote", ErrModelNotFound(modelId))
         /\ currentId' = IdNext(currentId).currentId
         /\ currentId < Seed + 3 * MaxNotes
         /\ UNCHANGED <<db, models, decks, initialized, initAwait, sqlOpened, sqlClosed, life>>
    ELSE IF Len(note.fields) # Len(models[modelId].flds)
    THEN /\ ret' = Throw("addNote", ErrFieldCount(Len(note.fields), Len(models[modelId].flds)))
         /\ currentId' = IdNext(currentId).currentId
         /\ currentId < Seed + 3 * MaxNotes
         /\ UNCHANGED <<db, models, decks, initialized, initAwait, sqlOpened, sqlClosed, life>>
    ELSE LET noteId == IdNext(currentId).value
             withNote == [db EXCEPT !.notes =
                             Append(@, NoteRow(noteId, note, modelId, models[modelId]))]
             done == AddCards(withNote, IdNext(currentId).currentId, noteId, deckId,
                              0, Len(models[modelId].tmpls))
         IN /\ Len(db.notes) < MaxNotes
            /\ db' = done.db
            /\ currentId' = done.currentId
            /\ ret' = Ok("addNote", noteId, "")
            /\ UNCHANGED <<models, decks, initialized, initAwait, sqlOpened, sqlClosed, life>>

addNote(note, modelId, deckId) ==
    IF db = NULL
    THEN /\ ret' = Throw("addNote", ErrNotInitialized)
         /\ UNCHANGED dbVars
    ELSE IF modelId \notin DOMAIN models
    THEN /\ ret' = Throw("addNote", ErrModelNotFound(modelId))
         /\ UNCHANGED dbVars
    ELSE IF Len(note.fields) # Len(models[modelId].flds)
    THEN /\ ret' = Throw("addNote", ErrFieldCount(Len(note.fields), Len(models[modelId].flds)))
         /\ UNCHANGED dbVars
    ELSE LET noteId == IdNext(currentId).value
             withNote == [db EXCEPT !.notes =
                             Append(@, NoteRow(noteId, note, modelId, models[modelId]))]
             done == AddCards(withNote, IdNext(currentId).currentId, noteId, deckId,
                              0, Len(models[modelId].tmpls))
         IN /\ Len(db.notes) < MaxNotes
            /\ db' = done.db
            /\ currentId' = done.currentId
            /\ ret' = Ok("addNote", noteId, "")
            /\ UNCHANGED <<models, decks, initialized, initAwait, sqlOpened, sqlClosed, life>>

\* the bytes Database.export() returns: the five tables
Payload(d) == [col |-> d.col, notes |-> d.notes, cards |-> d.cards,
               revlog |-> d.revlog, graves |-> d.graves]

\* export() releasing the handle once the bytes are taken
exportReleases ==
    IF db = NULL
    THEN /\ ret' = Throw("export", ErrNotInitialized)
         /\ dbData' = None
         /\ UNCHANGED dbVars
    ELSE /\ ret' = Ok("export", 0, "")
         /\ dbData' = Some(Payload(db))
         /\ db' = NULL
         /\ sqlClosed' = sqlClosed + 1
         /\ UNCHANGED <<currentId, models, decks, initialized, initAwait, sqlOpened, life>>

\* export()
export ==
    IF db = NULL
    THEN /\ ret' = Throw("export", ErrNotInitialized)
         /\ dbData' = None
         /\ UNCHANGED dbVars
    ELSE /\ ret' = Ok("export", 0, "")
         /\ dbData' = Some(Payload(db))
         /\ UNCHANGED dbVars

\* close() without its `if (this.db)`
closeUnguarded ==
    /\ sqlClosed' = sqlClosed + 1
    /\ db' = NULL
    /\ life' = "closed"
    /\ ret' = Ok("close", 0, "released")
    /\ UNCHANGED <<currentId, models, decks, initialized, initAwait, sqlOpened>>

\* close(): releases the handle if there is one
close ==
    IF db # NULL
    THEN /\ sqlClosed' = sqlClosed + 1
         /\ db' = NULL
         /\ life' = "closed"
         /\ ret' = Ok("close", 0, "released")
         /\ UNCHANGED <<currentId, models, decks, initialized, initAwait, sqlOpened>>
    ELSE /\ ret' = Ok("close", 0, "noop")
         /\ UNCHANGED dbVars

(***************************************************************************)
(* ApkgZipWriter, the archive engine it drives and the sink it pipes into  *)
(***************************************************************************)
StreamIds == 1..MaxStreams

ErrFinalized == "Archive already finalized"

\* new ApkgZipWriter(output)
InitZipWriter ==
    /\ finalized = FALSE
    /\ entries = <<>>
    /\ written = 0
    /\ engine = "open"
    /\ entryListeners = {}
    /\ streams = [st \in StreamIds |-> "unused"]
    /\ mediaPromise = [st \in StreamIds |-> "none"]
    /\ sink = "open"
    /\ sinkListeners = FALSE
    /\ finalizeState = "none"
    /\ uncaught = FALSE

BufferEntry(data) == [name |-> "collection.anki2", kind |-> "buffer", stream |-> 0, data |-> data]

\* a media entry named by the one-based position
StreamEntryOneBased(index, st) ==
    [name |-> toString(index + 1), kind |-> "stream", stream |-> st, data |-> None]

StreamEntry(index, st) == [name |-> toString(index), kind |-> "stream", stream |-> st, data |-> None]

StringEntry(manifest) == [name |-> "media", kind |-> "string", stream |-> 0, data |-> manifest]

\* addDatabase(data)
addDatabase(data) ==
    IF finalized
    THEN /\ ret' = Throw("addDatabase", ErrFinalized)
         /\ UNCHANGED zipVars
    ELSE /\ entries' = Append(entries, BufferEntry(data))
         /\ ret' = Ok("addDatabase", 0, "")
         /\ UNCHANGED <<finalized, written, engine, entryListeners, streams, mediaPromise,
                        sink, sinkListeners, finalizeState, uncaught>>

\* what one addMediaFile(index, stream) past its guard does to the archive state z:
\* append the stream, register once('entry') on the archive and once('error') on
\* the stream
RegisterMedia(z, index, st) ==
    [entries |-> Append(z.entries, StreamEntry(index, st)),
     entryListeners |-> z.entryListeners \cup {st},
     mediaPromise |-> [z.mediaPromise EXCEPT ![st] = "pending"]]

ZipState == [entries |-> entries, entryListeners |-> entryListeners, mediaPromise |-> mediaPromise]

\* addMediaFile(index, stream)
addMediaFile(index, st) ==
    IF finalized
    THEN /\ ret' = Throw("addMediaFile", ErrFinalized)
         /\ UNCHANGED <<finalized, entries, written, engine, entryListeners, mediaPromise,
                        sink, sinkListeners, finalizeState, uncaught>>
    ELSE /\ entries' = RegisterMedia(ZipState, index, st).entries
         /\ entryListeners' = RegisterMedia(ZipState, index, st).entryListeners
         /\ mediaPromise' = RegisterMedia(ZipState, index, st).mediaPromise
         /\ ret' = Ok("addMediaFile", 0, "")
         /\ UNCHANGED <<finalized, written, engine, sink, sinkListeners, finalizeState, uncaught>>

RECURSIVE RegisterAll(_, _, _)
\* entries.map(entry => this.addMediaFile(entry.index, entry.stream)), entries
\* given as the sequence of their streams, the k-th with index k - 1
RegisterAll(z, sts, k) ==
    IF k > Len(sts) THEN z
    ELSE RegisterAll(RegisterMedia(z, k - 1, sts[k]), sts, k + 1)

\* addMediaFiles(entries)
addMediaFiles(sts) ==
    IF finalized
    THEN /\ ret' = Throw("addMediaFiles", ErrFinalized)
         /\ UNCHANGED <<finalized, entries, written, engine, entryListeners, mediaPromise,
                        sink, sinkListeners, finalizeState, uncaught>>
    ELSE /\ entries' = RegisterAll(ZipState, sts, 1).entries
         /\ entryListeners' = RegisterAll(ZipState, sts, 1).entryListeners
         /\ mediaPromise' = RegisterAll(ZipState, sts, 1).mediaPromise
         /\ ret' = Ok("addMediaFiles", 0, "")
         /\ UNCHANGED <<finalized, written, engine, sink, sinkListeners, finalizeState, uncaught>>

\* addMediaManifest without its `if (this.finalized) throw`
addMediaManifestUnguarded(manifest) ==
    /\ entries' = Append(entries, StringEntry(manifest))
    /\ ret' = Ok("addMediaManifest", 0, "")
    /\ UNCHANGED <<finalized, written, engine, entryListeners, streams, mediaPromise,
                   sink, sinkListeners, finalizeState, uncaught>>

\* addMediaManifest(manifest)
addMediaManifest(manifest) ==
    IF finalized
    THEN /\ ret' = Throw("addMediaManifest", ErrFinalized)
         /\ UNCHANGED zipVars
    ELSE /\ entries' = Append(entries, StringEntry(manifest))
         /\ ret' = Ok("addMediaManifest", 0, "")
         /\ UNCHANGED <<finalized, written, engine, entryListeners, streams, mediaPromise,
                        sink, sinkListeners, finalizeState, uncaught>>

\* finalize() up to `await this.archive.finalize()`
finalize ==
    IF finalized
    THEN /\ ret' = Throw("finalize", ErrFinalized)
         /\ UNCHANGED zipVars
    ELSE /\ finalized' = TRUE
         /\ engine' = IF engine = "open" THEN "finalizing" ELSE engine
         /\ finalizeState' = "awaitEngine"
         /\ ret' = Ok("finalize", 0, "pending")
         /\ UNCHANGED <<entries, written, entryListeners, streams, mediaPromise, sink,
                        sinkListeners, uncaught>>

\* finalize() returning once archive.finalize() has resolved, without the sink
finalizeResumeNoSinkWait ==
    /\ finalizeState = "awaitEngine"
    /\ engine = "ended"
    /\ finalizeState' = "resolved"
    /\ UNCHANGED <<finalized, entries, written, engine, entryListeners, streams,
                   mediaPromise, sink, sinkListeners, uncaught, ret>>

\* finalize() after archive.finalize() has resolved: register the sink listeners
finalizeResume ==
    /\ finalizeState = "awaitEngine"
    /\ engine = "ended"
    /\ sinkListeners' = TRUE
    /\ finalizeState' = "awaitSink"
    /\ UNCHANGED <<finalized, entries, written, engine, entryListeners, streams,
                   mediaPromise, sink, uncaught, ret>>

\* ---- the archive engine (archiver), the media streams and the sink

\* the entry the engine is to write next
QueueHead == entries[written + 1]

\* the archive emits 'entry': every once('entry') listener runs and is removed
EmitEntry ==
    /\ mediaPromise' = [st \in StreamIds |->
          IF st \in entryListeners /\ mediaPromise[st] = "pending"
          THEN "resolved" ELSE mediaPromise[st]]
    /\ entryListeners' = {}

\* the engine starts to read the stream of the entry at the head of its queue
archiveBeginStream ==
    /\ engine \in {"open", "finalizing"}
    /\ written < Len(entries)
    /\ QueueHead.kind = "stream"
    /\ streams[QueueHead.stream] = "open"
    /\ streams' = [streams EXCEPT ![QueueHead.stream] = "reading"]
    /\ UNCHANGED <<finalized, entries, written, engine, entryListeners, mediaPromise,
                   sink, sinkListeners, finalizeState, uncaught, ret>>

\* the engine has written the head entry out (a stream: read to its end)
archiveEntryDone ==
    /\ engine \in {"open", "finalizing"}
    /\ written < Len(entries)
    /\ QueueHead.kind = "stream" => streams[QueueHead.stream] = "reading"
    /\ streams' = IF QueueHead.kind = "stream"
                  THEN [streams EXCEPT ![QueueHead.stream] = "ended"] ELSE streams
    /\ written' = written + 1
    /\ EmitEntry
    /\ UNCHANGED <<finalized, entries, engine, sink, sinkListeners, finalizeState,
                   uncaught, ret>>

\* a media stream emits 'error': its once('error') listener rejects the promise
streamError(st) ==
    /\ streams[st] \in {"open", "reading"}
    /\ mediaPromise[st] # "none"
    /\ streams' = [streams EXCEPT ![st] = "errored"]
    /\ mediaPromise' = [mediaPromise EXCEPT ![st] = IF @ = "pending" THEN "rejected" ELSE @]
    /\ UNCHANGED <<finalized, entries, written, engine, entryListeners, sink,
                   sinkListeners, finalizeState, uncaught, ret>>

\* the engine meets the failed stream: the archive emits 'error', and the listener
\* the constructor registered throws it out of the event handler
archiveError ==
    /\ engine \in {"open", "finalizing"}
    /\ written < Len(entries)
    /\ QueueHead.kind = "stream"
    /\ streams[QueueHead.stream] = "errored"
    /\ engine' = "errored"
    /\ uncaught' = TRUE
    /\ UNCHANGED <<finalized, entries, written, entryListeners, streams, mediaPromise,
                   sink, sinkListeners, finalizeState, ret>>

\* archive.finalize(): every entry is written, the directory follows, the promise resolves
archiveEnd ==
    /\ engine = "finalizing"
    /\ written = Len(entries)
    /\ engine' = "ended"
    /\ UNCHANGED <<finalized, entries, written, entryListeners, streams, mediaPromise,
                   sink, sinkListeners, finalizeState, uncaught, ret>>

\* the sink emits 'finish' once the ended archive has been flushed into it
sinkFinish ==
    /\ sink = "open"
    /\ engine = "ended"
    /\ sink' = "finished"
    /\ finalizeState' = IF sinkListeners /\ finalizeState = "awaitSink"
                        THEN "resolved" ELSE finalizeState
    /\ UNCHANGED <<finalized, entries, written, engine, entryListeners, streams,
                   mediaPromise, sinkListeners, uncaught, ret>>

\* the sink emits 'error'
sinkError ==
    /\ sink = "open"
    /\ sink' = "errored"
    /\ finalizeState' = IF sinkListeners /\ finalizeState = "awaitSink"
                        THEN "rejected" ELSE finalizeState
    /\ uncaught' = IF sinkListeners THEN uncaught ELSE TRUE
    /\ UNCHANGED <<finalized, entries, written, engine, entryListeners, streams,
                   mediaPromise, sinkListeners, ret>>

(***************************************************************************)
(* A caller driving one ApkgZipWriter through its public methods           *)
(***************************************************************************)
InitDbObject ==
    /\ db = NULL
    /\ currentId = Seed
    /\ models = EmptyMap
    /\ decks = EmptyMap
    /\ initialized = FALSE
    /\ initAwait = 0
    /\ sqlOpened = 0
    /\ sqlClosed = 0
    /\ life = "uninit"

NoAppends == [media |-> "none", database |-> "none", manifest |-> "none", error |-> ""]

\* no package writer: the objects are driven directly
NoPackageWriter ==
    /\ pc = "idle"
    /\ options = [model |-> Model(1, 1, 1, None, None), deck |-> Deck(1, "A"), notes |-> <<>>]
    /\ noteIdx = 0
    /\ mediaFiles = <<>>
    /\ resolver = [st \in StreamIds |-> "none"]
    /\ appends = NoAppends
    /\ creates = 0
    /\ createError = ""

InitZip ==
    /\ NoUtils
    /\ InitDbObject
    /\ dbData = None
    /\ ret = Ok("new", 0, "")
    /\ InitZipWriter
    /\ NoPackageWriter

\* the streams not handed to the writer yet
Unused == { st \in StreamIds : streams[st] = "unused" }

\* the manifests a caller passes
ManifestInputs == { EmptyMap, [k \in {"0"} |-> "a.mp3"] }

CallAddDatabase ==
    /\ Len(entries) < MaxEntries
    /\ addDatabase(Payload(NewDatabase(1)))
    /\ UNCHANGED <<dbVars, dbData, createVars, utilVars>>

CallAddMediaFile ==
    /\ Len(entries) < MaxEntries
    /\ \E st \in Unused :
          /\ addMediaFile(st - 1, st)
          /\ streams' = IF finalized THEN streams ELSE [streams EXCEPT ![st] = "open"]
    /\ UNCHANGED <<dbVars, dbData, createVars, utilVars>>

CallAddMediaFiles ==
    /\ Len(entries) + Cardinality(Unused) <= MaxEntries
    /\ Unused # {}
    /\ LET sts == [k \in 1..Cardinality(Unused) |->
                      CHOOSE st \in Unused : Cardinality({u \in Unused : u < st}) = k - 1]
       IN /\ addMediaFiles(sts)
          /\ streams' = IF finalized THEN streams
                        ELSE [st \in StreamIds |-> IF st \in Unused THEN "open" ELSE streams[st]]
    /\ UNCHANGED <<dbVars, dbData, createVars, utilVars>>

CallAddMediaManifest ==
    /\ Len(entries) < MaxEntries
    /\ \E m \in ManifestInputs : addMediaManifest(m)
    /\ UNCHANGED <<dbVars, dbData, createVars, utilVars>>

CallFinalize == finalize /\ UNCHANGED <<dbVars, dbData, createVars, utilVars>>

FinalizeResume == finalizeResume /\ UNCHANGED <<dbVars, dbData, createVars, utilVars>>

\* create() is running synchronous code: no event is delivered meanwhile
Running ==
    pc \in {"addModel", "addDeck", "collect", "addNote", "export", "writeMediaFiles",
            "addDatabase", "writeMediaManifest", "finalize", "catch"}

EngineBeginStream == ~Running /\ archiveBeginStream /\ UNCHANGED <<dbVars, dbData, createVars, utilVars>>

EngineEntryDone == ~Running /\ archiveEntryDone /\ UNCHANGED <<dbVars, dbData, createVars, utilVars>>

EngineError == ~Running /\ archiveError /\ UNCHANGED <<dbVars, dbData, createVars, utilVars>>

EngineEnd == ~Running /\ archiveEnd /\ UNCHANGED <<dbVars, dbData, createVars, utilVars>>

StreamError ==
    /\ ~Running
    /\ \E st \in StreamIds : streamError(st)
    /\ UNCHANGED <<dbVars, dbData, createVars, utilVars>>

SinkFinish == ~Running /\ sinkFinish /\ UNCHANGED <<dbVars, dbData, createVars, utilVars>>

\* the sink is written to, and so fails, during a build only
SinkError ==
    /\ ~Running
    /\ pc \notin {"new", "resolved", "rejected"}
    /\ sinkError
    /\ UNCHANGED <<dbVars, dbData, createVars, utilVars>>

NextZip ==
    \/ CallAddDatabase
    \/ CallAddMediaFile
    \/ CallAddMediaFiles
    \/ CallAddMediaManifest
    \/ CallFinalize
    \/ FinalizeResume
    \/ EngineBeginStream
    \/ EngineEntryDone
    \/ EngineError
    \/ EngineEnd
    \/ StreamError
    \/ SinkFinish
    \/ SinkError

SpecZip == InitZip /\ [][NextZip]_vars

(***************************************************************************)
(* A caller driving one AnkiDatabase through its public methods            *)
(***************************************************************************)
InitDb ==
    /\ NoUtils
    /\ InitDbObject
    /\ dbData = None
    /\ ret = Ok("new", 0, "")
    /\ InitZipWriter
    /\ NoPackageWriter

CallInit == init /\ dbData' = None /\ UNCHANGED <<zipVars, createVars, utilVars>>

InitResume == initResume /\ dbData' = None /\ UNCHANGED <<zipVars, createVars, utilVars>>

InitReject == initReject /\ dbData' = None /\ UNCHANGED <<zipVars, createVars, utilVars>>

CallAddModel == \E m \in ModelInputs : addModel(m) /\ dbData' = None /\ UNCHANGED <<zipVars, createVars, utilVars>>

CallAddDeck == \E d \in DeckInputs : addDeck(d) /\ dbData' = None /\ UNCHANGED <<zipVars, createVars, utilVars>>

CallAddNote == \E n \in NoteInputs, mid \in ModelIds, did \in DeckIds : addNote(n, mid, did) /\ dbData' = None /\ UNCHANGED <<zipVars, createVars, utilVars>>

CallExport == export /\ UNCHANGED <<zipVars, createVars, utilVars>>

CallClose == close /\ dbData' = None /\ UNCHANGED <<zipVars, createVars, utilVars>>

NextDb ==
    \/ CallInit
    \/ InitResume
    \/ InitReject
    \/ CallAddModel
    \/ CallAddDeck
    \/ CallAddNote
    \/ CallExport
    \/ CallClose

SpecDb == InitDb /\ [][NextDb]_vars

(***************************************************************************)
(* A caller of the helpers: IdGenerator, extractMediaFilenames,            *)
(* collectMediaFilenames and buildMediaManifest on their own               *)
(***************************************************************************)
\* the start values a caller gives an IdGenerator
SeedInputs == {0, Seed}

\* the pieces a text is made of
Tokens == { Txt("x"), Sound("a.mp3"), Sound("c.wav"), Img("b.png") }

\* the texts a caller passes
HtmlInputs == UNION { [1..n -> Tokens] : n \in 0..MaxTokens }

\* the filename lists a caller passes
FilenameInputs == UNION { [1..n -> {"a.mp3", "b.png", "c.wav"}] : n \in 0..MaxFiles }

InitUtils ==
    /\ gen \in { NewIdGenerator(s) : s \in SeedInputs }
    /\ call = [fn |-> "none", arg |-> <<>>, out |-> <<>>]
    /\ InitDbObject
    /\ dbData = None
    /\ ret = Ok("new", 0, "")
    /\ InitZipWriter
    /\ NoPackageWriter

\* generator.next()
GenNext ==
    /\ Len(gen.returned) < MaxIds
    /\ gen' = [gen EXCEPT !.currentId = IdNext(gen.currentId).currentId,
                          !.returned = Append(@, IdNext(gen.currentId).value)]
    /\ UNCHANGED <<dbVars, dbData, ret, zipVars, createVars, call>>

\* generator.peek()
GenPeek ==
    /\ gen' = [gen EXCEPT !.peeked = Some(IdPeek(gen.currentId))]
    /\ UNCHANGED <<dbVars, dbData, ret, zipVars, createVars, call>>

CallExtractMediaFilenames ==
    /\ \E html \in HtmlInputs :
          call' = [fn |-> "extractMediaFilenames", arg |-> html,
                   out |-> extractMediaFilenames(html)]
    /\ UNCHANGED <<dbVars, dbData, ret, zipVars, createVars, gen>>

CallBuildMediaManifest ==
    /\ \E filenames \in FilenameInputs :
          call' = [fn |-> "buildMediaManifest", arg |-> filenames,
                   out |-> buildMediaManifest(filenames)]
    /\ UNCHANGED <<dbVars, dbData, ret, zipVars, createVars, gen>>

CallGenerateRequirements ==
    /\ \E nt \in 0..MaxTemplates, nf \in 0..MaxTemplates :
          LET templates == [i \in 1..nt |-> Template(i - 1)]
              fields == [i \in 1..nf |-> Field(i - 1)]
          IN call' = [fn |-> "generateRequirements",
                      arg |-> [templates |-> templates, fields |-> fields],
                      out |-> generateRequirements(templates, fields)]
    /\ UNCHANGED <<dbVars, dbData, ret, zipVars, createVars, gen>>

\* the fullModel that addModel builds from the model it is given
CallFullModel ==
    /\ \E model \in ModelInputs :
          call' = [fn |-> "fullModel", arg |-> model, out |-> FullModel(model)]
    /\ UNCHANGED <<dbVars, dbData, ret, zipVars, createVars, gen>>

NextUtils ==
    \/ GenNext
    \/ GenPeek
    \/ CallExtractMediaFilenames
    \/ CallBuildMediaManifest
    \/ CallGenerateRequirements
    \/ CallFullModel

SpecUtils == InitUtils /\ [][NextUtils]_vars

\* ---- toBase91 and generateGuid, each applied once to an input

\* the BigInts a caller passes: the small numbers, and the 64-bit numbers whose
\* bytes are all 0x00 or 0xFF (0xFFFFFFFFFFFFFFFF among them)
Base91Inputs ==
    { <<0, 0, 0, 0, 0, 0, n \div 256, n % 256>> : n \in 0..MaxBigInt }
        \cup [1..8 -> {0, 255}]

\* the strings a field may hold: "a", "b", "_" and "a__b"
FieldInputs == { <<97>>, <<98>>, <<95>>, <<97, 95, 95, 98>> }

\* the field lists a caller passes: the two of the tests, ('field1', 'field2') and
\* ('hello'), one outside ASCII, ('hé'), and the lists over FieldInputs
GuidInputs ==
    { <<<<102, 105, 101, 108, 100, 49>>, <<102, 105, 101, 108, 100, 50>>>>,
      <<<<104, 101, 108, 108, 111>>>>,
      <<<<104, 233>>>> }
        \cup UNION { [1..n -> FieldInputs] : n \in 0..MaxFields }

InitGuid ==
    /\ NoUtils
    /\ InitDbObject
    /\ dbData = None
    /\ ret = Ok("new", 0, "")
    /\ InitZipWriter
    /\ NoPackageWriter

CallToBase91 ==
    /\ call.fn = "none"
    /\ \E num \in Base91Inputs :
          call' = [fn |-> "toBase91", arg |-> num, out |-> toBase91(num)]
    /\ UNCHANGED <<dbVars, dbData, ret, zipVars, createVars, gen>>

CallGenerateGuid ==
    /\ call.fn = "none"
    /\ \E fields \in GuidInputs :
          call' = [fn |-> "generateGuid", arg |-> fields, out |-> generateGuid(fields)]
    /\ UNCHANGED <<dbVars, dbData, ret, zipVars, createVars, gen>>

NextGuid ==
    \/ CallToBase91
    \/ CallGenerateGuid

SpecGuid == InitGuid /\ [][NextGuid]_vars

(***************************************************************************)
(* AnkiPackageWriter.create()                                              *)
(***************************************************************************)
RECURSIVE CollectFields(_, _, _)
\* the loop over one note's fields in collectMediaFilenames
CollectFields(set, fields, i) ==
    IF i > Len(fields) THEN set
    ELSE CollectFields(SetAddAll(set, extractMediaFilenames(fields[i]), 1), fields, i + 1)

RECURSIVE CollectNotes(_, _, _)
\* collectMediaFilenames(): notes in input order, fields in field order
CollectNotes(set, notes, i) ==
    IF i > Len(notes) THEN set
    ELSE CollectNotes(CollectFields(set, notes[i].fields, 1), notes, i + 1)

SeqsUpTo(S, n) == UNION { [1..m -> S] : m \in 0..n }

\* what the constructor is given; the deck's id is not the model's
OptionInputs ==
    { [model |-> m, deck |-> Deck(2, "B"), notes |-> ns] :
        m \in ModelInputs, ns \in SeqsUpTo(NoteInputs, MaxNotes) }

Init ==
    /\ NoUtils
    /\ InitDbObject
    /\ dbData = None
    /\ ret = Ok("new", 0, "")
    /\ InitZipWriter
    /\ pc = "new"
    /\ options \in OptionInputs
    /\ noteIdx = 0
    /\ mediaFiles = <<>>
    /\ resolver = [st \in StreamIds |-> "none"]
    /\ appends = NoAppends
    /\ creates = 0
    /\ createError = ""

\* leave the try block with the error of the call just made, or go on
Continue(next) ==
    /\ pc' = IF ret'.error = "" THEN next ELSE "catch"
    /\ createError' = ret'.error

\* create() is called: step 1 up to `await this.db.init()`
CreateStart ==
    /\ pc \in {"new", "resolved", "rejected"}
    /\ creates < MaxCreates
    /\ creates' = creates + 1
    /\ init
    /\ pc' = "awaitInit"
    /\ createError' = ""
    /\ noteIdx' = 0
    /\ appends' = NoAppends
    /\ UNCHANGED <<dbData, zipVars, options, mediaFiles, resolver>>
    /\ UNCHANGED utilVars

\* init() had returned at once: create() goes on
CreateInitNoop ==
    /\ pc = "awaitInit"
    /\ initAwait = 0
    /\ pc' = "addModel"
    /\ UNCHANGED <<dbVars, dbData, ret, zipVars, options, noteIdx, mediaFiles, resolver,
                   appends, creates, createError>>
    /\ UNCHANGED utilVars

\* the engine initialisation resolves: init() completes, create() goes on
CreateInitResume ==
    /\ pc = "awaitInit"
    /\ initResume
    /\ pc' = "addModel"
    /\ UNCHANGED <<dbData, zipVars, options, noteIdx, mediaFiles, resolver, appends,
                   creates, createError>>
    /\ UNCHANGED utilVars

\* the engine initialisation rejects
CreateInitReject ==
    /\ pc = "awaitInit"
    /\ initReject
    /\ Continue("addModel")
    /\ UNCHANGED <<dbData, zipVars, options, noteIdx, mediaFiles, resolver, appends, creates>>
    /\ UNCHANGED utilVars

\* step 2
CreateAddModel ==
    /\ pc = "addModel"
    /\ addModel(options.model)
    /\ Continue("addDeck")
    /\ UNCHANGED <<dbData, zipVars, options, noteIdx, mediaFiles, resolver, appends, creates>>
    /\ UNCHANGED utilVars

CreateAddDeck ==
    /\ pc = "addDeck"
    /\ addDeck(options.deck)
    /\ Continue("collect")
    /\ UNCHANGED <<dbData, zipVars, options, noteIdx, mediaFiles, resolver, appends, creates>>
    /\ UNCHANGED utilVars

\* step 3: collectMediaFilenames()
CreateCollect ==
    /\ pc = "collect"
    /\ mediaFiles' = CollectNotes(mediaFiles, options.notes, 1)
    /\ pc' = IF Len(options.notes) = 0 THEN "export" ELSE "addNote"
    /\ UNCHANGED <<dbVars, dbData, ret, zipVars, options, noteIdx, resolver, appends,
                   creates, createError>>
    /\ UNCHANGED utilVars

\* step 4: one turn of the loop over the notes
\* step 4 walking the notes from the last to the first
CreateAddNoteReversed ==
    /\ pc = "addNote"
    /\ addNote(options.notes[Len(options.notes) - noteIdx], options.model.id, options.deck.id)
    /\ noteIdx' = noteIdx + 1
    /\ Continue(IF noteIdx + 1 = Len(options.notes) THEN "export" ELSE "addNote")
    /\ UNCHANGED <<dbData, zipVars, options, mediaFiles, resolver, appends, creates>>
    /\ UNCHANGED utilVars

\* step 4: one turn of `for (const note of this.notes) this.db.addNote(...)`
CreateAddNote ==
    /\ pc = "addNote"
    /\ addNote(options.notes[noteIdx + 1], options.model.id, options.deck.id)
    /\ noteIdx' = noteIdx + 1
    /\ Continue(IF noteIdx + 1 = Len(options.notes) THEN "export" ELSE "addNote")
    /\ UNCHANGED <<dbData, zipVars, options, mediaFiles, resolver, appends, creates>>
    /\ UNCHANGED utilVars

\* step 5
CreateExport ==
    /\ pc = "export"
    /\ export
    /\ Continue("writeMediaFiles")
    /\ UNCHANGED <<zipVars, options, noteIdx, mediaFiles, resolver, appends, creates>>
    /\ UNCHANGED utilVars

\* the streams of the media files: the file at index i gets stream i + 1
MediaStreams == [k \in 1..Len(mediaFiles) |-> k]

\* steps 6-8, first member of Promise.all: writeMediaFiles() up to its first await;
\* the resolver is called once for every filename
CreateWriteMediaFiles ==
    /\ pc = "writeMediaFiles"
    /\ Len(mediaFiles) <= MaxStreams
    /\ IF Len(mediaFiles) = 0
       THEN /\ appends' = [appends EXCEPT !.media = "resolved"]
            /\ UNCHANGED resolver
       ELSE /\ appends' = [appends EXCEPT !.media = "resolving"]
            /\ resolver' = [st \in StreamIds |->
                  IF st <= Len(mediaFiles) THEN "pending" ELSE resolver[st]]
    /\ pc' = "addDatabase"
    /\ UNCHANGED <<dbVars, dbData, ret, zipVars, options, noteIdx, mediaFiles, creates,
                   createError>>
    /\ UNCHANGED utilVars

\* the outcome of an append as a promise of Promise.all
Settled(member) ==
    [appends EXCEPT ![member] = IF ret'.error = "" THEN "resolved" ELSE "rejected",
                    !.error = IF @ = "" THEN ret'.error ELSE @]

\* second member: this.zipWriter.addDatabase(dbData)
CreateAddDatabase ==
    /\ pc = "addDatabase"
    /\ addDatabase(dbData[1])
    /\ appends' = Settled("database")
    /\ pc' = "writeMediaManifest"
    /\ UNCHANGED <<dbVars, dbData, options, noteIdx, mediaFiles, resolver, creates, createError>>
    /\ UNCHANGED utilVars

\* third member: writeMediaManifest()
CreateWriteMediaManifest ==
    /\ pc = "writeMediaManifest"
    /\ addMediaManifest(buildMediaManifest(mediaFiles))
    /\ appends' = Settled("manifest")
    /\ pc' = "awaitAppends"
    /\ UNCHANGED <<dbVars, dbData, options, noteIdx, mediaFiles, resolver, creates, createError>>
    /\ UNCHANGED utilVars

\* the media resolver resolves with a stream
ResolverResolve ==
    /\ ~Running
    /\ \E st \in StreamIds :
          /\ resolver[st] = "pending"
          /\ resolver' = [resolver EXCEPT ![st] = "resolved"]
          /\ streams' = [streams EXCEPT ![st] = "open"]
    /\ UNCHANGED <<dbVars, dbData, ret, finalized, entries, written, engine, entryListeners,
                   mediaPromise, sink, sinkListeners, finalizeState, uncaught, pc, options,
                   noteIdx, mediaFiles, appends, creates, createError>>
    /\ UNCHANGED utilVars

\* the media resolver rejects
ResolverReject ==
    /\ ~Running
    /\ \E st \in StreamIds :
          /\ resolver[st] = "pending"
          /\ resolver' = [resolver EXCEPT ![st] = "rejected"]
    /\ UNCHANGED <<dbVars, dbData, ret, zipVars, pc, options, noteIdx, mediaFiles, appends,
                   creates, createError>>
    /\ UNCHANGED utilVars

ErrResolver == "media resolver rejected"

ErrStream == "media stream error"

ErrSink == "sink error"

\* writeMediaFiles() asking the resolver again for the filenames it rejected
WriteMediaFilesResumeRetry ==
    /\ pc = "awaitAppends"
    /\ appends.media = "resolving"
    /\ \E k \in 1..Len(mediaFiles) : resolver[k] = "rejected"
    /\ resolver' = [st \in StreamIds |->
          IF resolver[st] = "rejected" THEN "pending" ELSE resolver[st]]
    /\ UNCHANGED <<dbVars, dbData, ret, zipVars, pc, options, noteIdx, mediaFiles, appends,
                   creates, createError>>
    /\ UNCHANGED utilVars

\* writeMediaFiles() waiting for every resolver call to settle and registering the
\* streams that did resolve before it rejects
WriteMediaFilesResumeKeepsResolved ==
    /\ pc = "awaitAppends"
    /\ appends.media = "resolving"
    /\ \A k \in 1..Len(mediaFiles) : resolver[k] # "pending"
    /\ addMediaFiles(SelectSeq(MediaStreams, LAMBDA k : resolver[k] = "resolved"))
    /\ UNCHANGED streams
    /\ appends' = [appends EXCEPT
          !.media = IF \E k \in 1..Len(mediaFiles) : resolver[k] = "rejected"
                    THEN "rejected"
                    ELSE IF ret'.error = "" THEN "streaming" ELSE "rejected",
          !.error = IF @ # "" THEN @
                    ELSE IF \E k \in 1..Len(mediaFiles) : resolver[k] = "rejected"
                    THEN ErrResolver ELSE ret'.error]
    /\ UNCHANGED <<dbVars, dbData, pc, options, noteIdx, mediaFiles, resolver, creates,
                   createError>>
    /\ UNCHANGED utilVars

\* writeMediaFiles() after `await Promise.all(mediaPromises)`: a rejection ends it,
\* otherwise every entry goes to addMediaFiles
WriteMediaFilesResume ==
    /\ pc = "awaitAppends"
    /\ appends.media = "resolving"
    /\ IF \E k \in 1..Len(mediaFiles) : resolver[k] = "rejected"
       THEN /\ appends' = [appends EXCEPT !.media = "rejected",
                                          !.error = IF @ = "" THEN ErrResolver ELSE @]
            /\ UNCHANGED <<zipVars, ret>>
       ELSE /\ \A k \in 1..Len(mediaFiles) : resolver[k] = "resolved"
            /\ addMediaFiles(MediaStreams)
            /\ UNCHANGED streams
            /\ appends' = [appends EXCEPT
                  !.media = IF ret'.error = "" THEN "streaming" ELSE "rejected",
                  !.error = IF @ = "" THEN ret'.error ELSE @]
    /\ UNCHANGED <<dbVars, dbData, pc, options, noteIdx, mediaFiles, resolver, creates,
                   createError>>
    /\ UNCHANGED utilVars

\* writeMediaFiles() after `await this.zipWriter.addMediaFiles(mediaEntries)`
WriteMediaFilesSettle ==
    /\ pc = "awaitAppends"
    /\ appends.media = "streaming"
    /\ IF \E k \in 1..Len(mediaFiles) : mediaPromise[k] = "rejected"
       THEN appends' = [appends EXCEPT !.media = "rejected",
                                       !.error = IF @ = "" THEN ErrStream ELSE @]
       ELSE /\ \A k \in 1..Len(mediaFiles) : mediaPromise[k] = "resolved"
            /\ appends' = [appends EXCEPT !.media = "resolved"]
    /\ UNCHANGED <<dbVars, dbData, ret, zipVars, pc, options, noteIdx, mediaFiles, resolver,
                   creates, createError>>
    /\ UNCHANGED utilVars

AppendsResolved ==
    appends.media = "resolved" /\ appends.database = "resolved" /\ appends.manifest = "resolved"

AppendsRejected ==
    appends.media = "rejected" \/ appends.database = "rejected" \/ appends.manifest = "rejected"

\* `await Promise.all([...])` resolves: create() goes on to step 9
CreateAppendsDone ==
    /\ pc = "awaitAppends"
    /\ AppendsResolved
    /\ pc' = "finalize"
    /\ UNCHANGED <<dbVars, dbData, ret, zipVars, options, noteIdx, mediaFiles, resolver,
                   appends, creates, createError>>
    /\ UNCHANGED utilVars

\* `await Promise.all([...])` rejects with the first rejection
CreateAppendsFailed ==
    /\ pc = "awaitAppends"
    /\ AppendsRejected
    /\ pc' = "catch"
    /\ createError' = appends.error
    /\ UNCHANGED <<dbVars, dbData, ret, zipVars, options, noteIdx, mediaFiles, resolver,
                   appends, creates>>
    /\ UNCHANGED utilVars

\* step 9 up to the await inside finalize()
CreateFinalize ==
    /\ pc = "finalize"
    /\ finalize
    /\ Continue("awaitFinalize")
    /\ UNCHANGED <<dbVars, dbData, options, noteIdx, mediaFiles, resolver, appends, creates>>
    /\ UNCHANGED utilVars

\* `await this.zipWriter.finalize()` resolves; step 10: this.db.close()
CreateFinish ==
    /\ pc = "awaitFinalize"
    /\ finalizeState = "resolved"
    /\ close
    /\ pc' = "resolved"
    /\ UNCHANGED <<dbData, zipVars, options, noteIdx, mediaFiles, resolver, appends,
                   creates, createError>>
    /\ UNCHANGED utilVars

\* `await this.zipWriter.finalize()` rejects
CreateFinalizeFailed ==
    /\ pc = "awaitFinalize"
    /\ finalizeState = "rejected"
    /\ pc' = "catch"
    /\ createError' = ErrSink
    /\ UNCHANGED <<dbVars, dbData, ret, zipVars, options, noteIdx, mediaFiles, resolver,
                   appends, creates>>
    /\ UNCHANGED utilVars

\* a catch block that rethrows without closing the database
CreateCatchNoClose ==
    /\ pc = "catch"
    /\ pc' = "rejected"
    /\ UNCHANGED <<dbVars, dbData, ret, zipVars, options, noteIdx, mediaFiles, resolver,
                   appends, creates, createError>>
    /\ UNCHANGED utilVars

\* the catch block: this.db.close(); throw error
CreateCatch ==
    /\ pc = "catch"
    /\ close
    /\ pc' = "rejected"
    /\ UNCHANGED <<dbData, zipVars, options, noteIdx, mediaFiles, resolver, appends,
                   creates, createError>>
    /\ UNCHANGED utilVars

Next ==
    \/ CreateStart
    \/ CreateInitNoop
    \/ CreateInitResume
    \/ CreateInitReject
    \/ CreateAddModel
    \/ CreateAddDeck
    \/ CreateCollect
    \/ CreateAddNote
    \/ CreateExport
    \/ CreateWriteMediaFiles
    \/ CreateAddDatabase
    \/ CreateWriteMediaManifest
    \/ ResolverResolve
    \/ ResolverReject
    \/ WriteMediaFilesResume
    \/ WriteMediaFilesSettle
    \/ CreateAppendsDone
    \/ CreateAppendsFailed
    \/ CreateFinalize
    \/ FinalizeResume
    \/ CreateFinish
    \/ CreateFinalizeFailed
    \/ CreateCatch
    \/ EngineBeginStream
    \/ EngineEntryDone
    \/ EngineError
    \/ EngineEnd
    \/ StreamError
    \/ SinkFinish
    \/ SinkError

Spec == Init /\ [][Next]_vars

\* the steps that are bound to happen once they can: the continuations the event
\* loop runs, the resolver settling, the engine working through its queue and the
\* sink flushing; a stream error and a sink error are not
Progress ==
    \/ CreateInitNoop
    \/ CreateInitResume
    \/ CreateAddModel
    \/ CreateAddDeck
    \/ CreateCollect
    \/ CreateAddNote
    \/ CreateExport
    \/ CreateWriteMediaFiles
    \/ CreateAddDatabase
    \/ CreateWriteMediaManifest
    \/ ResolverResolve
    \/ WriteMediaFilesResume
    \/ WriteMediaFilesSettle
    \/ CreateAppendsDone
    \/ CreateAppendsFailed
    \/ CreateFinalize
    \/ FinalizeResume
    \/ CreateFinish
    \/ CreateFinalizeFailed
    \/ CreateCatch
    \/ EngineBeginStream
    \/ EngineEntryDone
    \/ EngineError
    \/ EngineEnd
    \/ SinkFinish

FairSpec == Spec /\ WF_vars(Progress)

\* create() has been called and has not settled
Building == pc \notin {"new", "idle", "resolved", "rejected"}

\* create() has settled
CreateSettled == pc \in {"resolved", "rejected"}

\* C3: whenever create() has resolved or rejected, whichever step failed, the
\* database handle has been closed: AnkiDatabase.db is null and every engine
\* database that was opened has been closed
C3_SettledMeansClosed == CreateSettled => (db = NULL /\ sqlClosed = sqlOpened)

\* create() rejected at the appends, after a database had been opened and filled
C3_Witness ==
    /\ pc = "rejected"
    /\ createError = ErrStream
    /\ sqlOpened = 1
    /\ db = NULL
    /\ dbData # None

\* C4: finalize() is invoked only once the three appends have completed
\* successfully, every media stream having been read into the archive to its end
C4_FinalizeAfterAppendsCompleted ==
    [][(~finalized /\ finalized') =>
          /\ pc = "finalize"
          /\ AppendsResolved
          /\ \A k \in 1..Len(mediaFiles) : streams[k] = "ended"]_vars

\* C7: a resolver rejection, or an error of a media stream that has been handed
\* to the archive, makes create() reject
C7_MediaFailureRejects ==
    (Building /\ \E k \in 1..Len(mediaFiles) :
                    \/ resolver[k] = "rejected"
                    \/ streams[k] = "errored" /\ mediaPromise[k] # "none")
        ~> (pc = "rejected")

\* C8: an error of the sink or of the archive engine during the build makes
\* create() reject
C8_SinkOrEngineErrorRejects ==
    (Building /\ (sink = "errored" \/ engine = "errored")) ~> (pc = "rejected")

(***************************************************************************)
(* AnkiDatabase: lifecycle and validation                                  *)
(***************************************************************************)
\* a call of one of the four guarded methods is made in this step
GuardedCall ==
    \/ ret'.op = "addModel" /\ CallAddModel
    \/ ret'.op = "addDeck" /\ CallAddDeck
    \/ ret'.op = "addNote" /\ CallAddNote
    \/ ret'.op = "export" /\ CallExport

\* C1: a call of addModel, addDeck, addNote or export made while no init() has
\* completed yet, or after close(), fails with 'Database not initialized' and
\* leaves the models map, the decks map, the id counter and the tables as they were.
C1_NotInitializedFails ==
    [][(life # "initialized" /\ GuardedCall) =>
          /\ ret'.error = "Database not initialized"
          /\ UNCHANGED <<models, decks, currentId, db>>]_vars

\* an addNote after init(), addModel and close() has been refused
C1_Witness ==
    /\ life = "closed"
    /\ DOMAIN models # {}
    /\ ret = Throw("addNote", "Database not initialized")

\* C9: on an open database, addNote with a model id that was never added fails
\* with 'Model <id> not found', and with a field count other than the model's it
\* fails with an error naming both counts; neither inserts a row or draws an id.
C9_AddNoteValidation ==
    [][\A n \in NoteInputs, mid \in ModelIds, did \in DeckIds :
          (db # NULL /\ ret'.op = "addNote" /\ addNote(n, mid, did)) =>
             /\ mid \notin DOMAIN models =>
                   /\ ret'.error = "Model " \o toString(mid) \o " not found"
                   /\ UNCHANGED <<db, currentId>>
             /\ (mid \in DOMAIN models /\ Len(n.fields) # Len(models[mid].flds)) =>
                   /\ ret'.error = "Note has " \o toString(Len(n.fields))
                                     \o " fields, but model expects "
                                     \o toString(Len(models[mid].flds))
                   /\ UNCHANGED <<db, currentId>>]_vars

\* a note with two fields was refused by a one-field model after a note went in
C9_Witness ==
    /\ db # NULL
    /\ Len(db.notes) > 0
    /\ ret = Throw("addNote", "Note has 2 fields, but model expects 1")

\* C10: an init() call made after an earlier init() has completed changes nothing:
\* no database is created, no row is inserted, and models, decks, notes and cards
\* stay as they were.
C10_InitIdempotent ==
    [][(life # "uninit" /\ ret'.op = "init" /\ CallInit) =>
          /\ ret' = Ok("init", 0, "noop")
          /\ UNCHANGED dbVars]_vars

\* init() returned at once on a database that already holds a note
C10_Witness ==
    /\ ret = Ok("init", 0, "noop")
    /\ db # NULL
    /\ Len(db.notes) > 0
    /\ sqlOpened = 1

(***************************************************************************)
(* ApkgZipWriter: finalization and completion signals                      *)
(***************************************************************************)
\* a call of one of the five guarded methods is made in this step
ZipCall ==
    \/ ret'.op = "addDatabase" /\ CallAddDatabase
    \/ ret'.op = "addMediaFile" /\ CallAddMediaFile
    \/ ret'.op = "addMediaFiles" /\ CallAddMediaFiles
    \/ ret'.op = "addMediaManifest" /\ CallAddMediaManifest
    \/ ret'.op = "finalize" /\ CallFinalize

\* C2: once finalize() has been called the finalized flag stays true, and every
\* later addDatabase, addMediaFile, addMediaFiles, addMediaManifest or finalize
\* fails with 'Archive already finalized' and appends nothing to the archive.
C2_FinalizedOneWay ==
    [][finalized =>
          /\ finalized'
          /\ ZipCall => (ret'.error = "Archive already finalized" /\ entries' = entries)]_vars

\* addMediaFiles was refused on a finalized archive that holds entries
C2_Witness ==
    /\ finalized
    /\ Len(entries) > 0
    /\ ret = Throw("addMediaFiles", "Archive already finalized")

\* C5: the promise of addMediaFile(index, stream) is resolved only when the
\* engine has read that stream to its end.
C5_ResolvedOnlyAtEndOfStream ==
    \A st \in StreamIds : mediaPromise[st] = "resolved" => streams[st] = "ended"

OneCollectionRow(d) ==
    /\ Len(d.col) = 1
    /\ d.col[1].id = 1
    /\ d.revlog = <<>>
    /\ d.graves = <<>>

\* C11: from init() on, whatever addModel, addDeck, addNote and export calls
\* are made, the open database and every exported payload hold exactly one col
\* row, with id 1, and no revlog and no graves rows.
C11_OneCollectionRow ==
    /\ db # NULL => OneCollectionRow(db)
    /\ dbData # None => OneCollectionRow(dbData[1])

\* a payload exported after a model, a deck and a note were added
C11_Witness ==
    /\ dbData # None
    /\ Len(dbData[1].notes) > 0
    /\ dbData[1].col[1].models # Stringify(EmptyMap)
    /\ dbData[1].col[1].decks # Stringify(EmptyMap)

\* the rows from position first on
RowsFrom(table, first) == SubSeq(table, first, Len(table))

\* C12: a successful addNote appends exactly one notes row, carrying the id it
\* returns, and exactly one cards row per template of the model, in increasing
\* ordinal order, each with the new note's id, the given deck id and the
\* template's ordinal; the rows already there and the other tables stay.
C12_AddNoteRows ==
    [][\A n \in NoteInputs, mid \in ModelIds, did \in DeckIds :
          (ret'.op = "addNote" /\ addNote(n, mid, did) /\ ret'.error = "") =>
             LET added == RowsFrom(db'.cards, Len(db.cards) + 1)
             IN /\ Len(db'.notes) = Len(db.notes) + 1
                /\ SubSeq(db'.notes, 1, Len(db.notes)) = db.notes
                /\ db'.notes[Len(db'.notes)].id = ret'.value
                /\ db'.notes[Len(db'.notes)].mid = mid
                /\ SubSeq(db'.cards, 1, Len(db.cards)) = db.cards
                /\ Len(added) = Len(models[mid].tmpls)
                /\ \A o \in 1..Len(added) :
                      /\ added[o].nid = ret'.value
                      /\ added[o].did = did
                      /\ added[o].ord = models[mid].tmpls[o].ord
                      /\ added[o].ord = o - 1
                /\ db'.col = db.col /\ db'.revlog = db.revlog /\ db'.graves = db.graves]_vars

\* two notes added under a model with one template: 2 notes rows, 2 cards rows
C12_Witness ==
    /\ db # NULL
    /\ ret.op = "addNote" /\ ret.error = ""
    /\ Len(db.notes) = 2
    /\ Len(db.cards) = 2
    /\ Len(models[1].tmpls) = 1

(***************************************************************************)
(* Identifiers                                                             *)
(***************************************************************************)
RECURSIVE AllocOrder(_, _)
\* the ids of the rows of d in the order addNote drew them: each note's id,
\* then the ids of its cards, note after note from row i on
AllocOrder(d, i) ==
    IF i > Len(d.notes) THEN <<>>
    ELSE LET own == SelectSeq(d.cards, LAMBDA c : c.nid = d.notes[i].id)
         IN <<d.notes[i].id>> \o [o \in 1..Len(own) |-> own[o].id] \o AllocOrder(d, i + 1)

StrictlyIncreasing(ids) == \A i \in 1..(Len(ids) - 1) : ids[i] < ids[i + 1]

\* the ids stored in d
IdsOf(d) == { d.notes[i].id : i \in 1..Len(d.notes) } \cup { d.cards[i].id : i \in 1..Len(d.cards) }

\* C13: the note and card ids of one AnkiDatabase are pairwise distinct and
\* strictly increasing in the order they were drawn, no id is drawn twice
\* (every new id is at least the counter before the call, every stored id is
\* below the counter, the counter never goes back), failed calls included.
C13_IdsDistinctIncreasing ==
    /\ [](db # NULL =>
            /\ Len(AllocOrder(db, 1)) = Len(db.notes) + Len(db.cards)
            /\ StrictlyIncreasing(AllocOrder(db, 1))
            /\ \A id \in IdsOf(db) : Seed <= id /\ id < currentId)
    /\ [][/\ currentId' >= currentId
          /\ db' # NULL =>
                \A id \in IdsOf(db') \ (IF db = NULL THEN {} ELSE IdsOf(db)) :
                    id >= currentId]_vars

\* two notes with two cards each, then an addNote that failed: six ids drawn
C13_Witness ==
    /\ db # NULL
    /\ Len(db.notes) = 2
    /\ Len(db.cards) = 4
    /\ ret.op = "addNote" /\ ret.error # ""
    /\ currentId = Seed + 6

\* C14: an IdGenerator seeded with s has, after n next() calls interleaved with
\* any peek() calls, returned s, s+1, ..., s+n-1 in that order; a next() returns
\* the counter and then advances it by one, a peek() returns s+n and leaves the
\* counter and the sequence of returned values as they were.
C14_IdGeneratorSequence ==
    /\ [](/\ gen.returned = [i \in 1..Len(gen.returned) |-> gen.seed + i - 1]
          /\ gen.currentId = gen.seed + Len(gen.returned))
    /\ [][gen' # gen =>
            \/ /\ gen'.returned = Append(gen.returned, gen.currentId)
               /\ gen'.currentId = gen.currentId + 1
               /\ gen'.peeked = gen.peeked
            \/ /\ gen'.peeked = Some(gen.seed + Len(gen.returned))
               /\ gen'.currentId = gen.currentId
               /\ gen'.returned = gen.returned]_vars

\* peek, next, peek, next on a generator seeded with 1000
C14_Witness ==
    /\ gen.seed = Seed
    /\ gen.returned = <<Seed, Seed + 1>>
    /\ gen.peeked = Some(Seed + 1)
    /\ gen.currentId = Seed + 2

(***************************************************************************)
(* The archive a successful create() leaves                                *)
(***************************************************************************)
\* the entries the archive received under a name
Named(nm) == SelectSeq(entries, LAMBDA e : e.name = nm)

\* the stream the resolver returned for a filename: the call for the i-th
\* collected filename resolves with stream i
ResolvedStream(filename) ==
    CHOOSE i \in 1..Len(mediaFiles) : mediaFiles[i] = filename

\* C15: once create() has resolved, the archive has received, all written out,
\* exactly one 'collection.anki2' holding the exported database, one 'media'
\* holding the manifest (keys "0".."n-1" onto the collected filenames), and for
\* every manifest key k one entry named k fed from the stream the resolver
\* returned for manifest[k], read to its end; nothing else. With no media
\* reference that is 'collection.anki2' and 'media' with an empty manifest.
C15_ArchiveContents ==
    pc = "resolved" =>
        /\ Len(entries) = 2 + Len(mediaFiles)
        /\ written = Len(entries)
        /\ Len(Named("collection.anki2")) = 1
        /\ Named("collection.anki2")[1].kind = "buffer"
        /\ Named("collection.anki2")[1].data = dbData[1]
        /\ Len(Named("media")) = 1
        /\ Named("media")[1].kind = "string"
        /\ LET manifest == Named("media")[1].data
           IN /\ DOMAIN manifest = { toString(i - 1) : i \in 1..Len(mediaFiles) }
              /\ \A i \in 1..Len(mediaFiles) : manifest[toString(i - 1)] = mediaFiles[i]
              /\ \A k \in DOMAIN manifest :
                    /\ Len(Named(k)) = 1
                    /\ Named(k)[1].kind = "stream"
                    /\ Named(k)[1].stream = ResolvedStream(manifest[k])
                    /\ streams[Named(k)[1].stream] = "ended"
              /\ Len(mediaFiles) = 0 => manifest = EmptyMap

\* a package with two media files has been built
C15_Witness ==
    /\ pc = "resolved"
    /\ mediaFiles = <<"a.mp3", "b.png">>
    /\ Len(entries) = 4

(***************************************************************************)
(* Media references                                                        *)
(***************************************************************************)
\* the filenames a text refers to, in the order the references stand in it
LeftToRight(html) ==
    LET refs == SelectSeq(html, LAMBDA t : t.k \in {"sound", "img"})
    IN [i \in 1..Len(refs) |-> refs[i].v]

\* C16: extractMediaFilenames(text) returns the filenames of the sound
\* directives and the image sources of the text in the left-to-right order of
\* their appearance, however sounds and images follow each other.
C16_ExtractLeftToRight ==
    call.fn = "extractMediaFilenames" => call.out = LeftToRight(call.arg)

RECURSIVE RefsOfFields(_, _)
\* the references of the fields from field i on, field after field
RefsOfFields(fields, i) ==
    IF i > Len(fields) THEN <<>> ELSE LeftToRight(fields[i]) \o RefsOfFields(fields, i + 1)

RECURSIVE RefsOfNotes(_, _)
\* the references of the notes from note i on, note after note
RefsOfNotes(notes, i) ==
    IF i > Len(notes) THEN <<>>
    ELSE RefsOfFields(notes[i].fields, 1) \o RefsOfNotes(notes, i + 1)

RECURSIVE FirstOccurrences(_, _)
\* the elements of seq from position i on that occur at no earlier position
FirstOccurrences(seq, i) ==
    IF i > Len(seq) THEN <<>>
    ELSE (IF \E j \in 1..(i - 1) : seq[j] = seq[i] THEN <<>> ELSE <<seq[i]>>)
         \o FirstOccurrences(seq, i + 1)

\* C17: collectMediaFilenames() leaves in this.mediaFiles every filename some
\* field of some note refers to, once, in the order of first discovery: notes
\* in input order, fields in field order, references left to right in a field.
C17_CollectFirstDiscoveryOrder ==
    [][(pc = "collect" /\ pc' # "collect") =>
          mediaFiles' = FirstOccurrences(mediaFiles \o RefsOfNotes(options.notes, 1), 1)]_vars

\* C18: buildMediaManifest of n filenames has exactly the keys "0" .. "n-1",
\* the value at key i being the i-th filename (counted from 0); when the
\* filenames are pairwise distinct no two keys share a value.
C18_ManifestKeys ==
    call.fn = "buildMediaManifest" =>
        LET n == Len(call.arg)
        IN /\ DOMAIN call.out = { Digit[i] : i \in 1..n }
           /\ \A i \in 1..n : call.out[Digit[i]] = call.arg[i]
           /\ (\A i, j \in 1..n : call.arg[i] = call.arg[j] => i = j) =>
                 /\ \A k1, k2 \in DOMAIN call.out : call.out[k1] = call.out[k2] => k1 = k2
                 /\ { call.out[k] : k \in DOMAIN call.out } = { call.arg[i] : i \in 1..n }

\* the manifest of two distinct filenames
C18_Witness ==
    /\ call.fn = "buildMediaManifest"
    /\ call.arg = <<"b.png", "a.mp3">>
    /\ call.out["0"] = "b.png"
    /\ call.out["1"] = "a.mp3"

(***************************************************************************)
(* The models and decks blobs of the col row                               *)
(***************************************************************************)
\* stored is the definition given with every optional attribute filled in:
\* what was given is kept, what was left out has a value
Filled(given, stored, required) ==
    /\ DOMAIN stored = DOMAIN given
    /\ \A f \in DOMAIN given :
          IF f \in required THEN stored[f] = given[f]
          ELSE stored[f] # None /\ (given[f] # None => stored[f] = given[f])

\* a stored model: its own attributes, its fields and its templates filled in
FilledModel(given, stored) ==
    /\ Filled([given EXCEPT !.flds = None, !.tmpls = None],
              [stored EXCEPT !.flds = Some(0), !.tmpls = Some(0)], {"id"})
    /\ Len(stored.flds) = Len(given.flds)
    /\ \A i \in 1..Len(given.flds) : Filled(given.flds[i], stored.flds[i], {"name", "ord"})
    /\ Len(stored.tmpls) = Len(given.tmpls)
    /\ \A i \in 1..Len(given.tmpls) : Filled(given.tmpls[i], stored.tmpls[i], {"name", "ord"})

\* blob is old with the entry of id replaced or added, every other entry kept
Rewritten(old, blob, id) ==
    /\ DOMAIN blob = { toString(i) : i \in DOMAIN old \cup {id} }
    /\ \A i \in DOMAIN old \ {id} : blob[toString(i)] = old[i]

\* C19: on one database, the models blob and the decks blob of the col row
\* hold exactly one entry per id added so far, keyed by the id as a string;
\* a successful addModel (addDeck) leaves in the blob the default-filled
\* definition just given at its id, replacing an earlier entry of that id, and
\* every other entry as it was.
C19_BlobsFollowTheMaps ==
    /\ []((db # NULL /\ sqlOpened = 1) =>
            /\ DOMAIN db.col[1].models = { toString(i) : i \in DOMAIN models }
            /\ \A i \in DOMAIN models : db.col[1].models[toString(i)] = models[i]
            /\ DOMAIN db.col[1].decks = { toString(i) : i \in DOMAIN decks }
            /\ \A i \in DOMAIN decks : db.col[1].decks[toString(i)] = decks[i])
    /\ [][\A m \in ModelInputs :
            (ret'.op = "addModel" /\ addModel(m) /\ ret'.error = "") =>
                /\ Rewritten(models, db'.col[1].models, m.id)
                /\ FilledModel(m, db'.col[1].models[toString(m.id)])
                /\ db'.col[1].decks = db.col[1].decks]_vars
    /\ [][\A d \in DeckInputs :
            (ret'.op = "addDeck" /\ addDeck(d) /\ ret'.error = "") =>
                /\ Rewritten(decks, db'.col[1].decks, d.id)
                /\ Filled(d, db'.col[1].decks[toString(d.id)], {"id", "name"})
                /\ db'.col[1].models = db.col[1].models]_vars

\* two decks with different ids, and a model given twice under one id: the
\* blob holds the second definition of the model
C19_Witness ==
    /\ db # NULL
    /\ sqlOpened = 1
    /\ DOMAIN db.col[1].decks = {"1", "2"}
    /\ DOMAIN db.col[1].models = {"1"}
    /\ Len(db.col[1].models["1"].flds) = 2
    /\ Len(db.notes) = 1
    /\ Len(db.cards) = 2

(***************************************************************************)
(* AnkiDatabase: close()                                                   *)
(***************************************************************************)
\* C20: close() never raises; called on an open database it releases the
\* handle, once, and leaves db null; called again, or before init(), it changes
\* nothing and releases nothing. No more handles are released than were opened.
C20_CloseIdempotent ==
    /\ [](sqlClosed <= sqlOpened)
    /\ [][(ret'.op = "close" /\ CallClose) =>
            /\ ret'.error = ""
            /\ IF db # NULL
               THEN db' = NULL /\ sqlClosed' = sqlClosed + 1
               ELSE UNCHANGED dbVars]_vars

\* a close() after the database had been filled and closed already
C20_Witness ==
    /\ ret = Ok("close", 0, "noop")
    /\ life = "closed"
    /\ sqlOpened = 1
    /\ sqlClosed = 1
    /\ DOMAIN models # {}

(***************************************************************************)
(* utils.ts: generateGuid and toBase91                                     *)
(***************************************************************************)
\* C21: two field lists that differ, in length or in a value, give different
\* strings to the digest: no other input joins to the string this call hashed.
C21_DifferentFieldsDifferentInput ==
    call.fn = "generateGuid" =>
        \A other \in GuidInputs :
            other # call.arg => hashStr(other) # hashStr(call.arg)

\* C22: generateGuid returns the keys the tests pin: ('field1', 'field2') gives
\* 'BE.]Z,b=Wx' and ('hello') gives 'hZ%+.BW-%^'; every key is one to ten
\* characters of the alphabet, the base-91 numeral of a 64-bit number.
C22_GuidKnownAnswers ==
    call.fn = "generateGuid" =>
        /\ call.arg = <<<<102, 105, 101, 108, 100, 49>>, <<102, 105, 101, 108, 100, 50>>>>
               => call.out = <<66, 69, 46, 93, 90, 44, 98, 61, 87, 120>>
        /\ call.arg = <<<<104, 101, 108, 108, 111>>>>
               => call.out = <<104, 90, 37, 43, 46, 66, 87, 45, 37, 94>>
        /\ Len(call.out) \in 1..10
        /\ \A i \in DOMAIN call.out : \E d \in DOMAIN BASE91_TABLE : BASE91_TABLE[d] = call.out[i]

\* generateGuid('hello') has returned
C22_Witness ==
    /\ call.fn = "generateGuid"
    /\ call.arg = <<<<104, 101, 108, 108, 111>>>>
    /\ call.out = <<104, 90, 37, 43, 46, 66, 87, 45, 37, 94>>

RECURSIVE BigMulAdd(_, _, _, _)
\* num * m + carry on a BigInt of fixed width, from digit i down to the first;
\* acc holds the digits below i and the carry into digit i
BigMulAdd(num, m, i, acc) ==
    IF i = 0 THEN acc.digits
    ELSE Eval([digits |-> <<(num[i] * m + acc.carry) % 256>> \o acc.digits,
               carry |-> (num[i] * m + acc.carry) \div 256],
              LAMBDA next : BigMulAdd(num, m, i - 1, next))

RECURSIVE Decode91(_, _, _)
\* the number a base-91 numeral denotes, read digit by digit from the i-th on;
\* n is the value of the digits before i
Decode91(chars, i, n) ==
    IF i > Len(chars) THEN n
    ELSE Eval(BigMulAdd(n, 91, Len(n),
                        [digits |-> <<>>,
                         carry |-> (CHOOSE d \in DOMAIN BASE91_TABLE :
                                        BASE91_TABLE[d] = chars[i]) - 1]),
              LAMBDA next : Decode91(chars, i + 1, next))

\* C23: toBase91(n) is the shortest base-91 numeral of n, most significant digit
\* first: 0 gives 'a', the numeral of a non-zero n does not start with 'a', and
\* reading the numeral digit by digit gives n back.
C23_Base91Minimal ==
    call.fn = "toBase91" =>
        /\ \A i \in DOMAIN call.out : \E d \in DOMAIN BASE91_TABLE : BASE91_TABLE[d] = call.out[i]
        /\ IF \A i \in DOMAIN call.arg : call.arg[i] = 0
           THEN call.out = <<97>>
           ELSE call.out[1] # 97
        /\ Decode91(call.out, 1, <<0, 0, 0, 0, 0, 0, 0, 0>>) = call.arg

\* toBase91(0xFFFFFFFFFFFFFFFF) has returned its ten digits
C23_Witness ==
    /\ call.fn = "toBase91"
    /\ call.arg = <<255, 255, 255, 255, 255, 255, 255, 255>>
    /\ Len(call.out) = 10

(***************************************************************************)
(* AnkiPackageWriter: the order of the archive                             *)
(***************************************************************************)
\* C24: 'collection.anki2' is appended after every media file entry, and 'media'
\* after 'collection.anki2': in the archive no media file entry comes after the
\* database entry and no database entry comes after the manifest entry.
C24_DatabaseAfterMedia ==
    \A i, j \in DOMAIN entries :
        /\ (entries[i].name = "collection.anki2" /\ entries[j].kind = "stream") => j < i
        /\ (entries[i].name = "media" /\ entries[j].name = "collection.anki2") => j < i

(***************************************************************************)
(* AnkiPackageWriter: the ids of a build                                   *)
(***************************************************************************)
\* C25: create() adds the notes one by one in input order: the addNote made for
\* the k-th input note (k from 0) stores that note and returns Seed + k*(T+1),
\* T the number of templates; in the tables the k-th notes row has that id and
\* the fields of the k-th input note, its T cards have the T ids that follow, in
\* template order, and the note ids grow with the input position.
C25_IdsFollowInputOrder ==
    /\ [](db # NULL =>
            LET T == Len(options.model.tmpls)
            IN /\ Len(db.notes) <= noteIdx
               /\ Len(db.cards) = T * Len(db.notes)
               /\ \A k \in 0..(Len(db.notes) - 1) :
                     /\ db.notes[k + 1].id = Seed + k * (T + 1)
                     /\ db.notes[k + 1].flds = joinFields(options.notes[k + 1].fields)
                     /\ k > 0 => db.notes[k].id < db.notes[k + 1].id
                     /\ \A o \in 0..(T - 1) :
                           /\ db.cards[k * T + o + 1].id = Seed + k * (T + 1) + 1 + o
                           /\ db.cards[k * T + o + 1].nid = db.notes[k + 1].id
                           /\ db.cards[k * T + o + 1].ord = o)
    /\ [][(pc = "addNote" /\ ret'.op = "addNote" /\ ret'.error = "") =>
            /\ Len(db'.notes) = noteIdx + 1
            /\ db'.notes[noteIdx + 1].flds = joinFields(options.notes[noteIdx + 1].fields)
            /\ ret'.value = Seed + noteIdx * (Len(options.model.tmpls) + 1)]_vars

\* two notes added under a model of two templates: the second note has id Seed + 3
C25_Witness ==
    /\ db # NULL
    /\ pc = "export"
    /\ Len(options.model.tmpls) = 2
    /\ Len(db.notes) = 2
    /\ db.notes[2].id = Seed + 3
    /\ db.cards[4].id = Seed + 5

(***************************************************************************)
(* AnkiPackageWriter: the media resolver                                   *)
(***************************************************************************)
\* C26: the resolver is called for a filename only by writeMediaFiles(), which
\* calls it for every collected filename at once, each filename being collected
\* once and never asked for before; a call that has settled, resolved or
\* rejected, is not made again, whatever becomes of the stream. When create()
\* has resolved, the calls made are one per filename the notes refer to, all
\* resolved.
C26_ResolverOncePerFilename ==
    /\ [](\A i, j \in DOMAIN mediaFiles : mediaFiles[i] = mediaFiles[j] => i = j)
    /\ [](pc = "resolved" =>
            /\ { mediaFiles[i] : i \in DOMAIN mediaFiles }
                   = { RefsOfNotes(options.notes, 1)[i] :
                           i \in DOMAIN RefsOfNotes(options.notes, 1) }
            /\ \A st \in StreamIds :
                  resolver[st] = IF st <= Len(mediaFiles) THEN "resolved" ELSE "none")
    /\ [][\A st \in StreamIds :
            /\ (resolver'[st] = "pending" /\ resolver[st] # "pending") =>
                  /\ pc = "writeMediaFiles"
                  /\ resolver[st] = "none"
                  /\ st <= Len(mediaFiles)
            /\ (pc = "writeMediaFiles" /\ pc' # pc /\ st <= Len(mediaFiles)) =>
                  resolver'[st] = "pending"
            /\ resolver[st] \in {"resolved", "rejected"} => resolver'[st] = resolver[st]]_vars

\* create() has rejected after the resolver resolved one filename and rejected
\* the other: neither was asked for again
C26_Witness ==
    /\ pc = "rejected"
    /\ Len(mediaFiles) = 2
    /\ resolver[1] = "resolved"
    /\ resolver[2] = "rejected"
    /\ createError = ErrResolver

(***************************************************************************)
(* AnkiDatabase: the columns of the rows                                   *)
(***************************************************************************)
\* C27: every cards row is a new card: type 0, queue 0, due equal to its own id,
\* ivl, factor, reps, lapses and left all 0, usn -1; every notes row and the col
\* row have usn -1.
C27_CardsAreNew ==
    db # NULL =>
        /\ \A i \in DOMAIN db.cards :
              /\ db.cards[i].type = 0
              /\ db.cards[i].queue = 0
              /\ db.cards[i].due = db.cards[i].id
              /\ db.cards[i].ivl = 0
              /\ db.cards[i].factor = 0
              /\ db.cards[i].reps = 0
              /\ db.cards[i].lapses = 0
              /\ db.cards[i].left = 0
              /\ db.cards[i].usn = -1
        /\ \A i \in DOMAIN db.notes : db.notes[i].usn = -1
        /\ \A i \in DOMAIN db.col : db.col[i].usn = -1

\* two notes with their cards, the second template's card of the first note among them
C27_Witness ==
    /\ db # NULL
    /\ Len(db.notes) = 2
    /\ Len(db.cards) = 4
    /\ db.cards[2].ord = 1
    /\ db.cards[2].due = Seed + 2

\* a flds value cut at every 0x1F: the pieces between the separators, in order
SplitFields(flds) ==
    LET cuts == { i \in DOMAIN flds : flds[i] = UnitSep }
        Cut(k) == IF k = 0 THEN 0
                  ELSE IF k > Cardinality(cuts) THEN Len(flds) + 1
                  ELSE CHOOSE p \in cuts : Cardinality({ q \in cuts : q < p }) = k - 1
    IN [k \in 1..(Cardinality(cuts) + 1) |-> SubSeq(flds, Cut(k - 1) + 1, Cut(k) - 1)]

\* C28: the notes row an addNote inserts holds in flds the note's field values in
\* field order with one 0x1F between neighbours, so cutting flds at the
\* separators gives the fields back, and in sfld the field at the model's sort
\* ordinal, the first field when the model carries none.
C28_FieldsAndSortField ==
    [][(pc = "addNote" /\ ret'.op = "addNote" /\ ret'.error = "") =>
          LET note == options.notes[noteIdx + 1]
              row == db'.notes[Len(db'.notes)]
          IN /\ Len(db'.notes) = Len(db.notes) + 1
             /\ SplitFields(row.flds) = note.fields
             /\ Cardinality({ i \in DOMAIN row.flds : row.flds[i] = UnitSep })
                    = Len(note.fields) - 1
             /\ row.sfld = Some(note.fields[Coalesce(options.model.sortf, 0) + 1])]_vars

\* a note of two fields stored under the model whose sort ordinal is 1
C28_Witness ==
    /\ db # NULL
    /\ options.model.sortf = Some(1)
    /\ Len(db.notes) = 1
    /\ Len(SplitFields(db.notes[1].flds)) = 2
    /\ db.notes[1].sfld = Some(<<Img("b.png"), Sound("a.mp3")>>)

(***************************************************************************)
(* utils.ts: generateRequirements                                          *)
(***************************************************************************)
\* C29: generateRequirements returns one requirement per template, in template
\* order, the i-th (from 0) being [i, "any", [0]], whatever the fields; the model
\* addModel stores carries that list when the caller's model has no req, and the
\* caller's req unchanged when it has one.
C29_RequirementsPerTemplate ==
    /\ call.fn = "generateRequirements" =>
          /\ Len(call.out) = Len(call.arg.templates)
          /\ \A i \in 1..Len(call.out) : call.out[i] = <<i - 1, "any", <<0>>>>
    /\ call.fn = "fullModel" =>
          IF call.arg.req = None
          THEN /\ Len(call.out.req[1]) = Len(call.arg.tmpls)
               /\ \A i \in 1..Len(call.arg.tmpls) : call.out.req[1][i] = <<i - 1, "any", <<0>>>>
          ELSE call.out.req = call.arg.req

\* the call of the test: three templates, no fields
C29_Witness ==
    /\ call.fn = "generateRequirements"
    /\ Len(call.arg.templates) = 3
    /\ Len(call.arg.fields) = 0
    /\ call.out = <<<<0, "any", <<0>>>>, <<1, "any", <<0>>>>, <<2, "any", <<0>>>>>>

(***************************************************************************)
(* AnkiPackageWriter: create() settles                                     *)
(***************************************************************************)
\* C30: if every stream the resolver returned reaches its end or errors, and
\* the sink signals finish or error in every build, then every create() that
\* was called settles. (That the engine initialisation and the resolver calls
\* settle is the fairness of FairSpec.)
C30_CreateSettles ==
    ( /\ \A st \in StreamIds :
            (streams[st] \in {"open", "reading"}) ~> (streams[st] \in {"ended", "errored"})
      /\ Building ~> (sink \in {"finished", "errored"}) )
        => (Building ~> CreateSettled)

(***************************************************************************)
(* AnkiDatabase: overlapping init() calls                                  *)
(***************************************************************************)
\* C31: however init() calls overlap, at most one engine database is ever
\* created, every database created and not closed is the one the instance
\* holds (none is overwritten while open), and the database held has one col row.
C31_OverlappingInitOneHandle ==
    /\ sqlOpened <= 1
    /\ sqlOpened - sqlClosed = (IF db = NULL THEN 0 ELSE 1)
    /\ db # NULL => Len(db.col) = 1

(***************************************************************************)
(* AnkiDatabase and AnkiPackageWriter: after close()                       *)
(***************************************************************************)
\* an init() has completed and the handle has been released since
ClosedAfterInit == initialized /\ db = NULL /\ initAwait = 0

\* C32: closed is terminal. Once an init() has completed and close() has released
\* the handle, no step brings a handle back: the init() a further create() makes
\* returns at once and creates no database, its addModel fails with 'Database
\* not initialized', so that create() rejects with that error, reaches none of
\* the later steps and appends nothing to the archive.
C32_ClosedIsTerminal ==
    [][ClosedAfterInit =>
          /\ ClosedAfterInit'
          /\ sqlOpened' = sqlOpened
          /\ entries' = entries
          /\ (pc' = "awaitInit" /\ pc # "awaitInit") => ret' = Ok("init", 0, "noop")
          /\ pc = "addModel" =>
                (ret' = Throw("addModel", "Database not initialized") /\ pc' = "catch")
          /\ pc' \in {"new", "resolved", "rejected", "awaitInit", "addModel", "catch"}
          /\ (pc = "catch" /\ pc' = "rejected") =>
                createError' = "Database not initialized"]_vars

\* a second create() on a writer whose first create() built a package with two
\* media files has rejected
C32_Witness ==
    /\ creates = 2
    /\ pc = "rejected"
    /\ createError = "Database not initialized"
    /\ ClosedAfterInit
    /\ sqlOpened = 1
    /\ finalizeState = "resolved"
    /\ Len(entries) = 4

(***************************************************************************)
(* ApkgZipWriter: media promises settled in parallel                       *)
(***************************************************************************)
\* C33: the promise of each addMediaFile call is settled by its own entry only:
\* it resolves in the step in which the engine completes the entry of its own
\* stream and rejects in the step in which its own stream fails, never on the
\* completion of the database entry, the manifest entry or another media
\* entry; so addMediaFiles has resolved only when every media stream has been
\* read to its end.
C33_SettledByOwnEntryOnly ==
    /\ [][\A st \in StreamIds :
            /\ (mediaPromise[st] = "pending" /\ mediaPromise'[st] = "resolved") =>
                  /\ written' = written + 1
                  /\ entries[written + 1].kind = "stream"
                  /\ entries[written + 1].stream = st
            /\ (mediaPromise[st] = "pending" /\ mediaPromise'[st] = "rejected") =>
                  (streams[st] # "errored" /\ streams'[st] = "errored")]_vars
    /\ [](appends.media = "resolved" =>
            \A k \in 1..Len(mediaFiles) : streams[k] = "ended")

(***************************************************************************)
(* ApkgZipWriter: finalize() and the sink's signal                         *)
(***************************************************************************)
\* C34: finalize() does not lose the sink's signal. From any moment at which
\* finalize() has been called and the sink has not signalled yet, whenever the
\* sink then emits finish or error, be it before finalize() has registered its
\* listeners, finalize() eventually resolves or rejects.
C34_SinkSignalNotLost ==
    []((finalized /\ sink = "open") =>
          []((sink \in {"finished", "errored"}) =>
                <>(finalizeState \in {"resolved", "rejected"})))

(***************************************************************************)
(* AnkiPackageWriter: media entries wait for every resolver call           *)
(***************************************************************************)
\* the media file entries the archive has received
MediaEntries == SelectSeq(entries, LAMBDA e : e.kind = "stream")

\* C35: writeMediaFiles() appends no media entry before every resolver call has
\* resolved: the media entries are appended all in one step, taken when each
\* collected filename has its stream, and while a call is pending or after one
\* has rejected the archive holds no media entry, the streams already resolved
\* included.
C35_NoMediaEntryBeforeAllResolved ==
    /\ []((\E k \in 1..Len(mediaFiles) : resolver[k] # "resolved") => MediaEntries = <<>>)
    /\ []((\E k \in 1..Len(mediaFiles) : resolver[k] = "rejected") =>
             \A st \in StreamIds : mediaPromise[st] = "none")
    /\ [][MediaEntries' # MediaEntries =>
            /\ MediaEntries = <<>>
            /\ Len(MediaEntries') = Len(mediaFiles)
            /\ \A k \in 1..Len(mediaFiles) : resolver[k] = "resolved"
            /\ appends.media = "resolving"]_vars

\* create() has rejected on a resolver rejection although the other filename had
\* its stream: the archive holds the database and the manifest only
C35_Witness ==
    /\ pc = "rejected"
    /\ Len(mediaFiles) = 2
    /\ resolver[1] = "resolved"
    /\ streams[1] = "open"
    /\ resolver[2] = "rejected"
    /\ Len(entries) = 2
    /\ MediaEntries = <<>>

(***************************************************************************)
(* AnkiPackageWriter: the references between the rows of a package         *)
(***************************************************************************)
\* C36: when create() has resolved, the exported database, which is the data of
\* the archive's 'collection.anki2', is referentially consistent: the nid of
\* every cards row is the id of a notes row, its did the id of a deck of the
\* decks blob, the mid of every notes row the id of a model of the models blob,
\* and the ord of every card is below the number of templates of its note's model.
C36_ReferentialConsistency ==
    pc = "resolved" =>
        LET d == dbData[1]
            modelsBlob == d.col[1].models
            decksBlob == d.col[1].decks
        IN /\ \A e \in DOMAIN entries :
                 entries[e].name = "collection.anki2" => entries[e].data = d
           /\ \A n \in DOMAIN d.notes :
                 \E k \in DOMAIN modelsBlob : modelsBlob[k].id = d.notes[n].mid
           /\ \A c \in DOMAIN d.cards :
                 /\ \E k \in DOMAIN decksBlob : decksBlob[k].id = d.cards[c].did
                 /\ \E n \in DOMAIN d.notes :
                       /\ d.notes[n].id = d.cards[c].nid
                       /\ \A k \in DOMAIN modelsBlob :
                             modelsBlob[k].id = d.notes[n].mid =>
                                 d.cards[c].ord < Len(modelsBlob[k].tmpls)

\* a package of two notes under the model of two templates: four cards
C36_Witness ==
    /\ pc = "resolved"
    /\ Len(dbData[1].notes) = 2
    /\ Len(dbData[1].cards) = 4
    /\ dbData[1].cards[4].nid = dbData[1].notes[2].id
    /\ dbData[1].cards[4].ord = 1
    /\ dbData[1].cards[4].did = options.deck.id
    /\ dbData[1].notes[2].mid = options.model.id
    /\ options.deck.id # options.model.id

(***************************************************************************)
(* AnkiDatabase: export()                                                  *)
(***************************************************************************)
\* C37: export() only reads. A call leaves the handle with the rows of its five
\* tables, the models map, the decks map and the id counter as they were, and on
\* an open database returns the payload of these rows; an export() made right
\* after an export() returns the same payload; and an addModel, addDeck or
\* addNote made right after an export() succeeds as it would have without it.
C37_ExportReadOnly ==
    /\ [][(ret'.op = "export" /\ CallExport) =>
            /\ UNCHANGED <<db, models, decks, currentId, initialized, sqlOpened, sqlClosed>>
            /\ db # NULL => (ret'.error = "" /\ dbData' = Some(Payload(db')))
            /\ dbData # None => dbData' = dbData]_vars
    /\ [][dbData # None =>
            /\ (ret'.op = "addModel" /\ CallAddModel) => ret'.error = ""
            /\ (ret'.op = "addDeck" /\ CallAddDeck) => ret'.error = ""
            /\ \A n \in NoteInputs, mid \in ModelIds, did \in DeckIds :
                  ( /\ ret'.op = "addNote"
                    /\ addNote(n, mid, did)
                    /\ mid \in DOMAIN models
                    /\ Len(n.fields) = Len(models[mid].flds) )
                      => (ret'.error = "" /\ Len(db'.notes) = Len(db.notes) + 1)]_vars

\* an export() of a database that holds a model, a deck and two notes: the payload
\* is that of the rows held and the handle is still open
C37_Witness ==
    /\ ret = Ok("export", 0, "")
    /\ dbData # None
    /\ db # NULL
    /\ dbData[1] = Payload(db)
    /\ Len(db.notes) = 2
    /\ DOMAIN decks # {}
    /\ sqlClosed = 0

====
